---------------------------- MODULE Spec2Model ----------------------------
(***************************************************************************)
(* A model of the MLR dashboard of src/MLR.py: the data returned by        *)
(* load_data_from_sources, the computation of calculate_mlr over it, and   *)
(* the part of the main script that consumes the two result tables.        *)
(*                                                                         *)
(* Money is counted in hundredths of a currency unit (an amount of 0.03    *)
(* is the integer 3), percentages in hundredths of a percent (94.0 % is    *)
(* 9400), so that every .round(2) of the source is an integer rounding.    *)
(* A dataframe is a sequence of records, one record per row; a cell that   *)
(* may be null, NaN or infinite is a record [k, v] (see Num, Null, ...).   *)
(***************************************************************************)
EXTENDS Integers, Sequences, FiniteSets, TLC

VARIABLES
    PA,              \* dbo.tbPATxn x tbPAProcedures rows, as loaded
    GROUP_CONTRACT,  \* current contract rows, as loaded
    CLAIMS,          \* dbo.claims rows, as loaded
    GROUPS,          \* dbo.[group] rows, as loaded
    DEBIT,           \* dbo.DEBIT_Note rows, as loaded
    coalesce,        \* whether the installed polars coalesces the key of how='outer'
    scenario,        \* which family of database contents this behaviour explores
    cursor,          \* place in the scenario's pool of the row inserted last
    pc,              \* "db": the databases fill up; then the position of the script run
    pa_merged,       \* first table returned by calculate_mlr
    claims_merged,   \* second table returned by calculate_mlr
    mlr_error,       \* whether calculate_mlr went through its except branch
    ACTIVE_ENROLLEE, \* current member coverages, as loaded
    M_PLAN,          \* dbo.member_plan rows, as loaded
    G_PLAN,          \* current dbo.group_plan rows, as loaded
    PLAN,            \* dbo.plans rows, as loaded
    email_alerts_enabled,  \* the sidebar checkbox
    email_password,  \* the sidebar text input
    smtp_ok,         \* whether the mail server accepts the login and the message
    sent_notifications,    \* st.session_state.sent_notifications, its keys
    attempts,        \* the alerts handed to send_mlr_alert_email, in order
    alerts_sent,     \* the list returned by check_and_send_alerts
    alert_checked,   \* whether the run called check_and_send_alerts
    outbox,          \* the alerts the mail server took since the history was last empty
    shown,           \* what the run has put on the page
    result_df,       \* first table returned by calculate_retail_mlr
    merged_plan_df,  \* second table returned by calculate_retail_mlr
    retail_error,    \* whether calculate_retail_mlr went through its except branch
    load_fault,      \* what goes wrong while load_data_from_sources runs, if anything
    loaded,          \* what the script got from load_data_from_sources
    open_conns,      \* the database connections that are open
    finalizer_closes,  \* whether the interpreter closes a connection once nothing holds it
    phones,          \* phone1..phone4 of the member row under analysis
    emails,          \* email1..email4 of the member row under analysis
    phone_result,    \* what is_phone_complete returned for the row
    email_result,    \* what is_email_complete returned for the row
    contact_pc,      \* position of analyze_incomplete_contacts
    tariff_df,       \* the tariff schedule read from MediCloud
    first_df,        \* the reference price list read from the CSV file
    workbook,        \* the per-code sheets of the saved workbook, in order
    summary_df,      \* the summary returned by analyze_tariffs
    tariff_pc,       \* position of the tariff check
    standards_df,    \* the pricing standards file, as read
    hospital_df,     \* the hospital tariff file, as read
    negotiation_strategy,  \* the strategy of the negotiation level selected
    use_ai,          \* the sidebar checkbox "Enable AI-Enhanced Strategies"
    openai_api_key,  \* the API key configured or typed in
    hospital_tariff, \* the dict made of the tariff file, in insertion order
    standards,       \* HospitalPriceNegotiator.standards
    ai_enabled,      \* HospitalPriceNegotiator.ai_enabled
    openai_client,   \* whether HospitalPriceNegotiator.openai_client is set
    ai_calls,        \* how many requests went to the OpenAI API
    analysis_df,     \* what analyze_hospital_tariff returned
    neg_pc,          \* position of the negotiation page
    selected_group,  \* st.session_state.selected_group
    start_date,      \* st.session_state.start_date, a day number
    end_date,        \* st.session_state.end_date, a day number
    plan_count,      \* st.session_state.plan_count
    report_generated, \* st.session_state.report_generated
    submitted,       \* whether the last run came from the "Generate Utilization Report" button
    util_shown,      \* what the last run put in the utilization section
    requests_df,     \* the PA procedures of dashboard.py, their request dates
    start_month,     \* the "Start month" date input
    end_month,       \* the "End month" date input
    df_filtered,     \* what filter_by_month_range returned
    month_pc,        \* position of the monthly dashboard
    db_fault,        \* what is wrong with the databases at the moment
    data_cache,      \* the st.cache_data entry of load_data_from_sources: <<>> or <<value>>
    cache_age,       \* hours since the entry was stored
    db_queries,      \* how often the body of load_data_from_sources has run
    run_value,       \* what the last script run got from load_data_from_sources
    served_from_cache, \* whether the last script run got it without running the body
    cache_pc,        \* where the server of the dashboard is
    alert_table,     \* the PA result table of the unchanged data, as every session computes it
    session_sent,    \* st.session_state.sent_notifications of each session, its keys
    mailbox,         \* the alert e-mails sent by all sessions, in order
    reloads,         \* how many page reloads have started a new session
    sess_pc          \* where the server with its sessions is

dbvars == <<PA, GROUP_CONTRACT, CLAIMS, GROUPS, DEBIT, ACTIVE_ENROLLEE, M_PLAN, G_PLAN, PLAN>>
inputvars == <<coalesce, scenario, email_alerts_enabled, email_password, smtp_ok>>
mlrvars == <<pa_merged, claims_merged, mlr_error>>
alertvars == <<sent_notifications, attempts, alerts_sent, alert_checked, outbox>>
retailvars == <<result_df, merged_plan_df, retail_error>>
loadvars == <<load_fault, loaded, open_conns, finalizer_closes>>

contactvars == <<phones, emails, phone_result, email_result, contact_pc>>

\* the state of the dashboard script, and the state of the other programs
scriptvars == <<dbvars, inputvars, cursor, pc, mlrvars, alertvars, shown, retailvars, loadvars>>
tariffvars == <<tariff_df, first_df, workbook, summary_df, tariff_pc>>
negvars == <<standards_df, hospital_df, negotiation_strategy, use_ai, openai_api_key,
             hospital_tariff, standards, ai_enabled, openai_client, ai_calls, analysis_df,
             neg_pc>>
utilvars == <<selected_group, start_date, end_date, plan_count, report_generated, submitted, util_shown>>
monthvars == <<requests_df, start_month, end_month, df_filtered, month_pc>>
cachevars == <<db_fault, data_cache, cache_age, db_queries, run_value, served_from_cache, cache_pc>>
sessvars == <<alert_table, session_sent, mailbox, reloads, sess_pc>>
auxvars == <<contactvars, tariffvars, negvars, utilvars, monthvars, cachevars, sessvars>>
notcontactvars == <<scriptvars, tariffvars, negvars, utilvars, monthvars, cachevars, sessvars>>
nottariffvars == <<scriptvars, contactvars, negvars, utilvars, monthvars, cachevars, sessvars>>
notnegvars == <<scriptvars, contactvars, tariffvars, utilvars, monthvars, cachevars, sessvars>>
notutilvars == <<scriptvars, contactvars, tariffvars, negvars, monthvars, cachevars, sessvars>>
notmonthvars == <<scriptvars, contactvars, tariffvars, negvars, utilvars, cachevars, sessvars>>
notcachevars == <<scriptvars, contactvars, tariffvars, negvars, utilvars, monthvars, sessvars>>
notsessvars == <<scriptvars, contactvars, tariffvars, negvars, utilvars, monthvars, cachevars>>

vars == <<scriptvars, auxvars>>

(***************************************************************************)
(* Cells.                                                                  *)
(***************************************************************************)
Num(n)  == [k |-> "num",  v |-> n]
Null    == [k |-> "null", v |-> 0]
NaN     == [k |-> "nan",  v |-> 0]
PosInf  == [k |-> "inf",  v |-> 0]
Text    == [k |-> "text", v |-> 0]    \* a non-numeric string cell

IsNum(c)  == c.k = "num"
IsNull(c) == c.k = "null"

\* pl.Expr.fill_null(0)
fill_null(c) == IF IsNull(c) THEN Num(0) ELSE c

\* cast(pl.Float64, strict=False): what cannot be converted becomes null
cast_float_lenient(c) == IF IsNum(c) THEN c ELSE Null

\* cast(pl.Float64) (strict): what cannot be converted raises
cast_float_raises(c) == ~(IsNum(c) \/ IsNull(c))

\* a / b with a >= 0, b > 0, rounded to the nearest integer (halves up)
RoundDiv(a, b) == (a \div b) + (IF 2 * (a % b) >= b THEN 1 ELSE 0)

(***************************************************************************)
(* Strings are sequences of one-character strings.                         *)
(***************************************************************************)
LowerOf(ch) ==
    CASE ch = "A" -> "a" [] ch = "P" -> "p" [] ch = "T" -> "t"
      [] ch = "S" -> "s" [] ch = "E" -> "e" [] ch = "N" -> "n"
      [] ch = "U" -> "u" [] ch = "L" -> "l" [] OTHER -> ch

to_lowercase(s) == [i \in 1..Len(s) |-> LowerOf(s[i])]

\* whether pat occurs in s as a contiguous substring
Contains(s, pat) ==
    \E i \in 1..(Len(s) - Len(pat) + 1) :
        \A j \in 1..Len(pat) : s[i + j - 1] = pat[j]

RECURSIVE Digits(_)
Digits(n) ==
    LET d == <<"0","1","2","3","4","5","6","7","8","9">>
    IN  IF n < 10 THEN <<d[n + 1]>> ELSE Digits(n \div 10) \o <<d[(n % 10) + 1]>>

\* cast(pl.Utf8) of an integer column: its decimal digits
cast_utf8_int(n) == Digits(n)

(***************************************************************************)
(* Dataframe operations.                                                   *)
(***************************************************************************)
\* join(..., on='groupname', how='inner'): every pair of a left row and a right
\* row with the same groupname, in left order; the right row's other columns are
\* appended to the left row's
JoinOnGroupname(L, R) ==
    LET RECURSIVE go(_, _)
        go(i, j) ==
            IF i > Len(L) THEN <<>>
            ELSE IF j > Len(R) THEN go(i + 1, 1)
            ELSE (IF L[i].groupname = R[j].groupname THEN <<L[i] @@ R[j]>> ELSE <<>>)
                 \o go(i, j + 1)
    IN  go(1, 1)

\* join(..., left_on='nhisgroupid', right_on='groupid', how='inner')
JoinOnGroupid(L, R) ==
    LET RECURSIVE go(_, _)
        go(i, j) ==
            IF i > Len(L) THEN <<>>
            ELSE IF j > Len(R) THEN go(i + 1, 1)
            ELSE (IF L[i].nhisgroupid = R[j].groupid
                  THEN <<L[i] @@ [groupname |-> R[j].groupname]>> ELSE <<>>)
                 \o go(i, j + 1)
    IN  go(1, 1)

RECURSIVE SetToSeq(_)
SetToSeq(S) ==
    IF S = {} THEN <<>>
    ELSE LET x == CHOOSE y \in S : TRUE IN <<x>> \o SetToSeq(S \ {x})

\* Series.sum(): nulls are skipped, an empty sum is 0
RECURSIVE SumCells(_)
SumCells(cells) ==
    IF cells = <<>> THEN 0
    ELSE (IF IsNum(Head(cells)) THEN Head(cells).v ELSE 0) + SumCells(Tail(cells))

Column(rows, col) == [i \in 1..Len(rows) |-> rows[i][col]]

\* group_by('groupname').agg(col.sum()): one row per group name present
GroupBySum(rows, col) ==
    LET names == {rows[i].groupname : i \in 1..Len(rows)}
        row(g) == [groupname |-> g,
                   total |-> SumCells(Column(SelectSeq(rows, LAMBDA r : r.groupname = g), col))]
        order == SetToSeq(names)
    IN  [i \in 1..Len(order) |-> row(order[i])]

\* sort(col, descending=True)
RECURSIVE SortDesc(_)
SortDesc(rows) ==
    IF rows = <<>> THEN <<>>
    ELSE LET m == CHOOSE i \in 1..Len(rows) :
                      \A j \in 1..Len(rows) : rows[j].total <= rows[i].total
         IN  <<rows[m]>> \o SortDesc(SubSeq(rows, 1, m - 1) \o SubSeq(rows, m + 1, Len(rows)))

(***************************************************************************)
(* calculate_mlr, step by step, over the loaded tables.                    *)
(***************************************************************************)
MARKUP_TENTHS == 14      \* the factor 1.4 applied to the PA cost, in tenths
COMMISSION_DIV == 10     \* the factor 0.10 applied to the debit total, as a divisor
TPA == <<"t", "p", "a">>

\* PA with granted cast to Float64, strict=False
PA_cast == [i \in 1..Len(PA) |-> [PA[i] EXCEPT !.granted = cast_float_lenient(@)]]

group_contract_dates ==
    [i \in 1..Len(GROUP_CONTRACT) |->
        [groupname |-> GROUP_CONTRACT[i].groupname,
         startdate |-> GROUP_CONTRACT[i].startdate,
         enddate   |-> GROUP_CONTRACT[i].enddate]]

\* the filter without its upper end
pa_filtered_NoEnd ==
    SelectSeq(JoinOnGroupname(PA_cast, group_contract_dates),
              LAMBDA r : r.requestdate >= r.startdate)

pa_filtered ==
    SelectSeq(JoinOnGroupname(PA_cast, group_contract_dates),
              LAMBDA r : r.requestdate >= r.startdate /\ r.requestdate <= r.enddate)

PA_mlr == GroupBySum(pa_filtered, "granted")

\* the strict casts of the claims columns raise on a cell that is no number
claims_cast_raises ==
    \E i \in 1..Len(CLAIMS) : cast_float_raises(CLAIMS[i].approvedamount)

GROUPS_cast == [i \in 1..Len(GROUPS) |-> [GROUPS[i] EXCEPT !.groupid = cast_utf8_int(@)]]

claims_with_group == JoinOnGroupid(CLAIMS, GROUPS_cast)

claims_with_dates ==
    SelectSeq(JoinOnGroupname(claims_with_group, group_contract_dates),
              LAMBDA r : r.encounterdatefrom >= r.startdate /\ r.encounterdatefrom <= r.enddate)

claims_mlr == SortDesc(GroupBySum(claims_with_dates, "approvedamount"))

\* the match made case-sensitive
is_tpa_CaseSensitive(desc) == IF desc = <<>> THEN FALSE ELSE Contains(desc[1], TPA)

\* ~Description.str.contains('tpa', case=False, na=False): a null description
\* does not contain it
is_tpa(desc) == IF desc = <<>> THEN FALSE ELSE Contains(to_lowercase(desc[1]), TPA)

CURRENT_DEBIT ==
    LET kept == SelectSeq(DEBIT, LAMBDA r : ~is_tpa(r.Description))
    IN  [i \in 1..Len(kept) |->
            [groupname |-> kept[i].CompanyName, From |-> kept[i].From,
             Description |-> kept[i].Description, Amount |-> kept[i].Amount]]

debit_with_dates ==
    SelectSeq(JoinOnGroupname(CURRENT_DEBIT, group_contract_dates),
              LAMBDA r : r.From >= r.startdate /\ r.From <= r.enddate)

DEBIT_BY_CLIENT == SortDesc(GroupBySum(debit_with_dates, "Amount"))

\* the markup left out
PA40_NoMarkup(total) == total

\* (col * 1.4).round(2)
PA40(total) == RoundDiv(total * MARKUP_TENTHS, 10)

\* the commission cut off below the second decimal instead of rounded
commission_Truncated(debit) ==
    IF IsNull(debit) THEN Null ELSE Num(debit.v \div 10)

\* (col * 0.10).round(2); null stays null
commission_of(debit) ==
    IF IsNull(debit) THEN Null ELSE Num(RoundDiv(debit.v, COMMISSION_DIV))

\* the ratio set to 0 where there is no debit
mlr_ratio_ZeroWhenNoDebit(cost, commission, debit) ==
    LET n == fill_null(cost).v + fill_null(commission).v
        d == fill_null(debit).v
    IN  IF d = 0 THEN Num(0) ELSE Num(RoundDiv(n * 10000, d))

\* ((cost + commission) / debit * 100).round(2) in float arithmetic, after the
\* three fill_null(0): x / 0 is inf for x > 0 and NaN for x = 0
mlr_ratio(cost, commission, debit) ==
    LET n == fill_null(cost).v + fill_null(commission).v
        d == fill_null(debit).v
    IN  IF d = 0 THEN (IF n = 0 THEN NaN ELSE PosInf)
        ELSE Num(RoundDiv(n * 10000, d))

\* debit_df.join(right, on='groupname', how='outer'): the debit rows, each with
\* its match if there is one, then the unmatched rows of the right table. Their
\* key lands in the column groupname when the join coalesces its keys, and in
\* groupname_right (leaving groupname null) when it does not.
OuterJoinDebit(right) ==
    LET left == DEBIT_BY_CLIENT
        match(g) == SelectSeq(right, LAMBDA r : r.groupname = g)
        lrow(l) == [groupname |-> <<l.groupname>>,
                    debit |-> Num(l.total),
                    cost  |-> IF match(l.groupname) = <<>> THEN Null
                              ELSE Num(match(l.groupname)[1].total)]
        rest == SelectSeq(right,
                    LAMBDA r : \A i \in 1..Len(left) : left[i].groupname # r.groupname)
        rrow(r) == [groupname |-> IF coalesce THEN <<r.groupname>> ELSE <<>>,
                    debit |-> Null,
                    cost  |-> Num(r.total)]
    IN  [i \in 1..Len(left) |-> lrow(left[i])] \o [i \in 1..Len(rest) |-> rrow(rest[i])]

calc_pa_merged ==
    LET j == OuterJoinDebit(PA_mlr)
        row(r) ==
            LET pa40 == IF IsNull(r.cost) THEN Null ELSE Num(PA40(r.cost.v))
                com  == commission_of(r.debit)
            IN  [groupname  |-> r.groupname,
                 debit      |-> r.debit,
                 cost       |-> r.cost,
                 pa40       |-> pa40,
                 commission |-> com,
                 mlr        |-> mlr_ratio(pa40, com, r.debit)]
    IN  [i \in 1..Len(j) |-> row(j[i])]

\* the PA markup applied to the claims cost as well
calc_claims_merged_Markup ==
    LET j == OuterJoinDebit(claims_mlr)
        row(r) ==
            LET com == commission_of(r.debit)
                marked == IF IsNull(r.cost) THEN Null ELSE Num(PA40(r.cost.v))
            IN  [groupname  |-> r.groupname,
                 debit      |-> r.debit,
                 cost       |-> r.cost,
                 commission |-> com,
                 mlr        |-> mlr_ratio(marked, com, r.debit)]
    IN  [i \in 1..Len(j) |-> row(j[i])]

calc_claims_merged ==
    LET j == OuterJoinDebit(claims_mlr)
        row(r) ==
            LET com == commission_of(r.debit)
            IN  [groupname  |-> r.groupname,
                 debit      |-> r.debit,
                 cost       |-> r.cost,
                 commission |-> com,
                 mlr        |-> mlr_ratio(r.cost, com, r.debit)]
    IN  [i \in 1..Len(j) |-> row(j[i])]

(***************************************************************************)
(* check_and_send_alerts and the part of the main script around it.        *)
(***************************************************************************)
THRESHOLDS == <<6500, 7500, 8500>>       \* 65, 75 and 85 percent
Passwords == {"", "app-password"}

\* str() of the group name of a pandas row: the name, or None for a null
name_str(groupname) ==
    IF groupname = <<>> THEN <<"N", "o", "n", "e">>
    ELSE CASE groupname[1] = "A" -> <<"A">>
           [] groupname[1] = "B" -> <<"B">>
           [] groupname[1] = "A_PA" -> <<"A", "_", "P", "A">>
           [] groupname[1] = "FAMILY SCHEME" ->
                  <<"F", "A", "M", "I", "L", "Y", " ", "S", "C", "H", "E", "M", "E">>

type_str(mlr_type) ==
    IF mlr_type = "PA" THEN <<"P", "A">> ELSE <<"C", "L", "A", "I", "M", "S">>

\* the key without the MLR type
notification_key_NoType(groupname, mlr_type, threshold) ==
    name_str(groupname) \o <<"_">> \o Digits(threshold \div 100)

\* f"{groupname}_{mlr_type}_{threshold}", the threshold being a whole percentage
notification_key(groupname, mlr_type, threshold) ==
    name_str(groupname) \o <<"_">> \o type_str(mlr_type) \o <<"_">> \o Digits(threshold \div 100)

\* key not in sent_notifications
should_send_notification(sent, key) == key \notin sent

save_notification_Forget(sent, key) == sent

\* st.session_state.sent_notifications[key] = datetime.now().isoformat()
save_notification(sent, key) == sent \cup {key}

breaches_Above(mlr, threshold) ==
    \/ mlr = PosInf
    \/ IsNum(mlr) /\ mlr.v > threshold

\* mlr_value >= threshold on the float of the pandas row: a null has become NaN,
\* NaN compares False, infinity compares True
breaches(mlr, threshold) ==
    \/ mlr = PosInf
    \/ IsNum(mlr) /\ mlr.v >= threshold

send_mlr_alert_email_AlwaysTrue(server_ok) == TRUE

\* send_mlr_alert_email: True when the mail server took the login and the
\* message, False (after st.error) when anything in the try block raised
send_mlr_alert_email(server_ok) == server_ok

\* the (row, threshold) pairs of one table in the order of the two nested loops
alert_items(table, mlr_type) ==
    [n \in 1..(Len(table) * Len(THRESHOLDS)) |->
        LET row == table[((n - 1) \div Len(THRESHOLDS)) + 1]
            threshold == THRESHOLDS[((n - 1) % Len(THRESHOLDS)) + 1]
        IN  [alert |-> <<row.groupname, mlr_type, threshold>>,
             key |-> notification_key(row.groupname, mlr_type, threshold),
             breach |-> breaches(row.mlr, threshold)]]

\* the loops of check_and_send_alerts over the PA table, then the claims table:
\* should_send_notification, send_mlr_alert_email, save_notification
alert_loops(pa, cl, session_state, tried, server_ok) ==
    LET items == alert_items(pa, "PA") \o alert_items(cl, "CLAIMS")
        RECURSIVE go(_, _)
        go(n, st) ==
            IF n > Len(items) THEN st
            ELSE IF items[n].breach /\ should_send_notification(st.sent, items[n].key)
                 THEN go(n + 1,
                         [sent |-> IF send_mlr_alert_email(server_ok)
                                   THEN save_notification(st.sent, items[n].key)
                                   ELSE st.sent,
                          attempts |-> Append(st.attempts, items[n].alert),
                          alerts |-> IF send_mlr_alert_email(server_ok)
                                     THEN Append(st.alerts, items[n].alert)
                                     ELSE st.alerts])
                 ELSE go(n + 1, st)
    IN  go(1, [sent |-> session_state, attempts |-> tried, alerts |-> <<>>])

\* check_and_send_alerts in the session of the script run
check_and_send_alerts(pa, cl) == alert_loops(pa, cl, sent_notifications, attempts, smtp_ok)

\* the guard without its test of the heights
alerts_guard_AnyHeight == email_alerts_enabled /\ email_password # ""

\* email_alerts_enabled and email_password and (pa_merged.height > 0 or
\* claims_merged.height > 0)
alerts_guard ==
    /\ email_alerts_enabled
    /\ email_password # ""
    /\ (Len(pa_merged) > 0 \/ Len(claims_merged) > 0)

Outputs == {"alerts_success", "no_new_alerts", "pa_table", "pa_warning", "claims_table",
            "claims_warning", "retail_table", "retail_info", "plan_table", "plan_info",
            "load_failed", "history_cleared"}

render_mlr(pa, cl) ==
    IF Len(pa) > 0 \/ Len(cl) > 0
    THEN {IF Len(pa) > 0 THEN "pa_table" ELSE "pa_warning",
          IF Len(cl) > 0 THEN "claims_table" ELSE "claims_warning"}
    ELSE {}

render_retail(res, merged) ==
    {IF Len(res) > 0 THEN "retail_table" ELSE "retail_info",
     IF Len(merged) > 0 THEN "plan_table" ELSE "plan_info"}

(***************************************************************************)
(* calculate_retail_mlr. A key or a value that a left join may leave null  *)
(* is <<>> when null and <<v>> otherwise.                                  *)
(***************************************************************************)
RETAIL_GROUP == "FAMILY SCHEME"

\* str.to_lowercase() on the group names of the model
name_to_lowercase(g) ==
    CASE g = "FAMILY SCHEME" -> "family scheme"
      [] g = "A" -> "a"
      [] g = "B" -> "b"
      [] OTHER -> g

\* cast(pl.Utf8) of a boolean column
cast_utf8_bool(b) == IF b THEN "true" ELSE "false"

\* the value of an expression, computed once: The({e(x) : x \in {v}}) is e(v)
The(S) == CHOOSE x \in S : TRUE

\* L.join(R.select([rkey] + cols), how='left'), lkeys[i] being the key of L[i]:
\* a left row without a match keeps nulls, a null key matches nothing
LeftJoin(L, lkeys, R, rkey, cols) ==
    LET RECURSIVE go(_)
        go(i) ==
            IF i > Len(L) THEN <<>>
            ELSE LET m == SelectSeq(R, LAMBDA r : lkeys[i] = <<r[rkey]>>)
                 IN  (IF m = <<>> THEN <<L[i] @@ [c \in cols |-> <<>>]>>
                      ELSE [j \in 1..Len(m) |-> L[i] @@ [c \in cols |-> <<m[j][c]>>]])
                     \o go(i + 1)
    IN  go(1)

\* the strict cast of PA.granted to Float64 raises on a value that is no number
retail_cast_raises == \E i \in 1..Len(PA) : cast_float_raises(PA[i].granted)

M_PLANN == SelectSeq(M_PLAN, LAMBDA r : cast_utf8_bool(r.iscurrent) = "true")

\* G_PLAN with the group names, the rows of the retail group only
G_PLANN ==
    SelectSeq(LeftJoin(G_PLAN, [i \in 1..Len(G_PLAN) |-> <<G_PLAN[i].groupid>>],
                       GROUPS, "groupid", {"groupname"}),
              LAMBDA r : r.groupname # <<>> /\ name_to_lowercase(r.groupname[1]) = "family scheme")

\* ACTIVE_ENROLLEE with its planid replaced by the current member plans'
ENROLLEE_PLANS ==
    LeftJoin([i \in 1..Len(ACTIVE_ENROLLEE) |->
                 [f \in DOMAIN ACTIVE_ENROLLEE[i] \ {"planid"} |-> ACTIVE_ENROLLEE[i][f]]],
             [i \in 1..Len(ACTIVE_ENROLLEE) |-> <<ACTIVE_ENROLLEE[i].memberid>>],
             M_PLANN, "memberid", {"planid"})

F_GPLAN ==
    The({LeftJoin(g, [i \in 1..Len(g) |-> <<g[i].planid>>], PLAN, "planid", {"planname"}) :
            g \in {G_PLANN}})

\* individualprice * countofindividual + countoffamily * familyprice
premium(r) ==
    IF IsNum(r.individualprice) /\ IsNum(r.familyprice)
    THEN Num(r.individualprice.v * r.countofindividual + r.countoffamily * r.familyprice.v)
    ELSE Null

\* group_by("planname").agg(col.sum()) over rows [planname, cell]
SumByPlan(rows) ==
    LET names == SetToSeq({rows[i].planname : i \in 1..Len(rows)})
    IN  [n \in 1..Len(names) |->
            [planname |-> names[n],
             total |-> SumCells(Column(SelectSeq(rows, LAMBDA r : r.planname = names[n]),
                                       "cell"))]]

total_retail_premium_by_plan ==
    The({SumByPlan([i \in 1..Len(f) |-> [planname |-> f[i].planname, cell |-> premium(f[i])]]) :
            f \in {F_GPLAN}})

PA_M ==
    The({LeftJoin(PA, [i \in 1..Len(PA) |-> <<PA[i].IID>>], e, "legacycode", {"memberid"}) :
            e \in {ENROLLEE_PLANS}})

PA_MP ==
    The({LeftJoin(m, [i \in 1..Len(m) |-> m[i].memberid], p, "memberid", {"planid"}) :
            m \in {PA_M}, p \in {M_PLANN}})

\* PA_MP.filter(groupname.str.to_lowercase() == "family scheme")
PAA_filtered ==
    SelectSeq(PA_MP, LAMBDA r : name_to_lowercase(r.groupname) = "family scheme")

\* the PA rows of the retail group with the name of their plan
PAA_named ==
    The({LeftJoin(fs, [i \in 1..Len(fs) |-> fs[i].planid], PLAN, "planid", {"planname"}) :
            fs \in {PAA_filtered}})

\* the PA rows of the retail group, with plan name and coverage window
PAA ==
    The({LeftJoin(named, [i \in 1..Len(named) |-> <<named[i].IID>>],
                  e, "legacycode", {"effectivedate", "terminationdate"}) :
            named \in {PAA_named}, e \in {ENROLLEE_PLANS}})

filtered_PAA ==
    SelectSeq(PAA, LAMBDA r :
        /\ r.effectivedate # <<>> /\ r.terminationdate # <<>>
        /\ r.requestdate >= r.effectivedate[1]
        /\ r.requestdate <= r.terminationdate[1])

\* group_by(['IID', 'planname']).agg(granted.sum())
GroupByIidPlan(f) ==
    LET keys == SetToSeq({<<f[i].IID, f[i].planname>> : i \in 1..Len(f)})
    IN  [n \in 1..Len(keys) |->
            [IID |-> keys[n][1],
             planname |-> keys[n][2],
             total_cost |->
                 SumCells(Column(SelectSeq(f, LAMBDA r : <<r.IID, r.planname>> = keys[n]),
                                 "granted"))]]

calc_result_df == The({GroupByIidPlan(f) : f \in {filtered_PAA}})

total_cost_by_plan ==
    The({IF Len(res) > 0
         THEN SumByPlan([i \in 1..Len(res) |->
                            [planname |-> res[i].planname, cell |-> Num(res[i].total_cost)]])
         ELSE <<>> : res \in {calc_result_df}})

\* the premiums with the costs beside them, or an empty frame when either is empty
JoinPlanTotals(premiums, costs) ==
    IF Len(premiums) > 0 /\ Len(costs) > 0
    THEN [i \in 1..Len(premiums) |->
             LET p == premiums[i]
                 m == SelectSeq(costs, LAMBDA c : p.planname # <<>> /\ c.planname = p.planname)
             IN  [planname |-> p.planname,
                  total_premium |-> p.total,
                  total_cost |-> IF m = <<>> THEN Null ELSE Num(m[1].total)]]
    ELSE <<>>

calc_merged_plan_df ==
    The({JoinPlanTotals(premiums, costs) :
            premiums \in {total_retail_premium_by_plan}, costs \in {total_cost_by_plan}})

(***************************************************************************)
(* What load_data_from_sources can find: bounded contents of the two       *)
(* databases, inserted row by row before the script runs. A behaviour      *)
(* explores one of four scenarios; each varies the rows of one side of the *)
(* computation in full (dates, amounts, descriptions, group ids) and gives *)
(* the other tables a few fixed rows. Group "A" is the group under study;  *)
(* "B" is a second group with one fixed row per table, there to show what  *)
(* leaks between groups and what the outer joins do with a group that is   *)
(* missing on one side. Rows are inserted in the order of the scenario's   *)
(* pool, so that each multiset of rows is built once.                      *)
(***************************************************************************)
MaxDate == 2          \* instants are 1..MaxDate
MaxRows == 4          \* rows of a database, over all its tables but GROUPS

Dates == 1..MaxDate
Windows == {w \in Dates \X Dates : w[1] <= w[2]}
Plain == <<<<"p", "a", "t">>>>                       \* a description without the marker
Descriptions == {<<>>, Plain, <<<<"s", "T", "p", "A">>>>}
Granted == {Num(3), Num(1000), Num(2000)}

Scenarios == {"pa", "debit", "claims", "claims_one_name"}

\* dbo.[group]: groupid is its key; in the last scenario both ids carry one name
GroupsOf(sc) ==
    <<[groupid |-> 1, groupname |-> "A"],
      [groupid |-> 2, groupname |-> CASE sc = "claims_one_name" -> "A"
                                      [] sc \in {"main", "retail"} -> RETAIL_GROUP
                                      [] OTHER -> "B"]>>

\* a row SELECTed by the GROUP_CONTRACT query: dbo.group_contract joined to
\* dbo.[group] on groupid
ContractRow(groups, i, w) ==
    [groupid |-> groups[i].groupid, groupname |-> groups[i].groupname,
     startdate |-> w[1], enddate |-> w[2]]

PARow(g, d, c) == [groupname |-> g, requestdate |-> d, granted |-> c, IID |-> "CL1"]
ClaimRow(n, d, c) == [nhisgroupid |-> n, encounterdatefrom |-> d, approvedamount |-> c]
DebitRow(g, d, s, a) == [CompanyName |-> g, From |-> d, Description |-> s, Amount |-> Num(a)]

ContractPool(groups) ==
    {<<"GROUP_CONTRACT", ContractRow(groups, 1, w)>> : w \in Windows}
        \cup {<<"GROUP_CONTRACT", ContractRow(groups, 2, <<1, MaxDate>>)>>}

PoolSet(sc) ==
    ContractPool(GroupsOf(sc)) \cup
    CASE sc = "pa" ->
            {<<"PA", PARow("A", d, c)>> : d \in Dates, c \in Granted}
                \cup {<<"PA", PARow("A", 1, Text)>>, <<"PA", PARow("B", 1, Num(1000))>>}
                \cup {<<"DEBIT", DebitRow("A", 1, Plain, a)>> : a \in {0, 56, 5000}}
                \cup {<<"DEBIT", DebitRow("B", 1, Plain, 5000)>>}
      [] sc = "debit" ->
            {<<"DEBIT", DebitRow("A", d, s, 56)>> : d \in Dates, s \in Descriptions}
                \cup {<<"DEBIT", DebitRow("B", 1, Plain, 5000)>>}
                \cup {<<"PA", PARow("A", 1, Num(1000))>>}
      [] OTHER ->
            {<<"CLAIMS", ClaimRow(<<"1">>, d, c)>> : d \in Dates, c \in {Num(3), Num(1000)}}
                \cup {<<"CLAIMS", ClaimRow(<<"1">>, 1, Text)>>,
                      <<"CLAIMS", ClaimRow(<<"2">>, 1, Num(1000))>>,
                      <<"CLAIMS", ClaimRow(<<"9">>, 1, Num(1000))>>}
                \cup {<<"DEBIT", DebitRow("A", 1, Plain, 5000)>>,
                      <<"DEBIT", DebitRow("B", 1, Plain, 5000)>>}

\* the scenario of the whole script run: a group "A" whose ratios breach every
\* threshold, the retail group, and a row in CLAIMS and in PA that does not cast
MainScenarios == {"main"}

MainPoolSet ==
    {<<"GROUP_CONTRACT", ContractRow(GroupsOf("main"), i, <<1, MaxDate>>)>> : i \in {1, 2}}
        \cup {<<"PA", PARow(RETAIL_GROUP, 1, Num(1000))>>, <<"PA", PARow(RETAIL_GROUP, 1, Text)>>,
              <<"PA", PARow("A", 1, Num(1000))>>}
        \cup {<<"CLAIMS", ClaimRow(<<"1">>, 1, Num(1000))>>, <<"CLAIMS", ClaimRow(<<"1">>, 1, Text)>>}
        \cup {<<"DEBIT", DebitRow("A", 1, Plain, 1000)>>}

\* the scenario of the retail computation: PA rows of two members of the retail
\* group at every instant, of a member of it that is not enrolled, and of an
\* enrolled member under another group's name
RetailScenarios == {"retail"}

RetailPARow(g, iid, d, c) == [groupname |-> g, requestdate |-> d, granted |-> c, IID |-> iid]

RetailPoolSet ==
    {<<"PA", RetailPARow(RETAIL_GROUP, "CL1", d, Num(1000))>> : d \in Dates}
        \cup {<<"PA", RetailPARow(RETAIL_GROUP, "CL1", 1, Num(2000))>>,
              <<"PA", RetailPARow(RETAIL_GROUP, "CL2", 1, Num(3))>>,
              <<"PA", RetailPARow(RETAIL_GROUP, "CL9", 1, Num(1000))>>,
              <<"PA", RetailPARow("A", "CL1", 1, Num(1000))>>}

Pool == [sc \in Scenarios \cup MainScenarios \cup RetailScenarios |->
            SetToSeq(IF sc \in MainScenarios THEN MainPoolSet
                     ELSE IF sc \in RetailScenarios THEN RetailPoolSet
                     ELSE PoolSet(sc))]

\* the retail side of the database: one member on one plan, covered from the
\* first instant on; the same member covered from the last instant on, with a
\* member plan that is no longer current
RetailWorlds ==
    LET enrollee(from) == [memberid |-> 7, legacycode |-> "CL1", planid |-> 3,
                           effectivedate |-> from, terminationdate |-> MaxDate]
        mplan(cur) == [memberid |-> 7, planid |-> 3, iscurrent |-> cur]
        gplan == [planid |-> 3, groupid |-> 2, individualprice |-> Num(1000),
                  familyprice |-> Num(2000), countofindividual |-> 2, countoffamily |-> 1]
        plan == [planid |-> 3, planname |-> "P"]
    IN  {[ACTIVE_ENROLLEE |-> <<enrollee(1)>>, M_PLAN |-> <<mplan(TRUE)>>,
          G_PLAN |-> <<gplan>>, PLAN |-> <<plan>>],
         [ACTIVE_ENROLLEE |-> <<enrollee(MaxDate)>>, M_PLAN |-> <<mplan(FALSE), mplan(TRUE)>>,
          G_PLAN |-> <<gplan>>, PLAN |-> <<plan>>]}

\* the retail side of the database in the retail scenario: member 7 (CL1) on
\* plan P with any coverage window, member 8 (CL2) on plan Q; plan P priced by
\* two rows of the retail group and one of group A, plan Q by one row; member 7
\* may have a second current member_plan row, and a second current coverage row
RetailCases ==
    LET enrollee(m, code, w) == [memberid |-> m, legacycode |-> code, planid |-> 3,
                                 effectivedate |-> w[1], terminationdate |-> w[2]]
        mplan(m, p) == [memberid |-> m, planid |-> p, iscurrent |-> TRUE]
        gplan(p, g, ip, ci, fp, cf) ==
            [planid |-> p, groupid |-> g, individualprice |-> Num(ip),
             familyprice |-> Num(fp), countofindividual |-> ci, countoffamily |-> cf]
    IN  {[ACTIVE_ENROLLEE |-> <<enrollee(7, "CL1", w), enrollee(8, "CL2", <<1, MaxDate>>)>>
                              \o (IF cov THEN <<enrollee(7, "CL1", <<MaxDate, MaxDate>>)>>
                                  ELSE <<>>),
          M_PLAN |-> <<mplan(7, 3), mplan(8, 4), [memberid |-> 7, planid |-> 4, iscurrent |-> FALSE]>>
                     \o (IF mp THEN <<mplan(7, 3)>> ELSE <<>>),
          G_PLAN |-> <<gplan(3, 2, 1000, 2, 2000, 1), gplan(3, 2, 1000, 1, 2000, 0),
                       gplan(4, 2, 1000, 1, 2000, 1), gplan(3, 1, 1000, 1, 2000, 1)>>,
          PLAN |-> <<[planid |-> 3, planname |-> "P"], [planid |-> 4, planname |-> "Q"]>>] :
            w \in Windows, cov \in BOOLEAN, mp \in BOOLEAN}

(***************************************************************************)
(* MEDITEST.py, analyze_incomplete_contacts.  A field of a member row is   *)
(* <<>> when it is missing (None, NaN) and <<s>> when it holds the string  *)
(* s.                                                                      *)
(***************************************************************************)
Whitespace == {" "}

RECURSIVE lstrip(_)
lstrip(s) == IF s # <<>> /\ Head(s) \in Whitespace THEN lstrip(Tail(s)) ELSE s

RECURSIVE rstrip(_)
rstrip(s) ==
    IF s # <<>> /\ s[Len(s)] \in Whitespace THEN rstrip(SubSeq(s, 1, Len(s) - 1)) ELSE s

strip(s) == rstrip(lstrip(s))

isdigit(ch) == ch \in {"0", "1", "2", "3", "4", "5", "6", "7", "8", "9"}

startswith(s, prefix) == Len(s) >= Len(prefix) /\ SubSeq(s, 1, Len(prefix)) = prefix

NumContactCols == 4

\* the values a row's contact columns are judged by: stripped, without the
\* missing, the empty and the "nan" ones
contact_values(fields) ==
    LET val(f) == IF f # <<>> THEN strip(f[1]) ELSE <<>>
        kept(v) == v # <<>> /\ v # <<"n", "a", "n">>
    IN  SelectSeq([i \in 1..Len(fields) |-> val(fields[i])], kept)

PLACEHOLDER_PREFIX == <<"0", "8", "0", "0", "0", "0">>

PHONE_DIGITS == 11

clean_phone(phone) == SelectSeq(phone, isdigit)

valid_phone_AnyPrefix(phone) == Len(clean_phone(phone)) = PHONE_DIGITS

valid_phone(phone) ==
    /\ Len(clean_phone(phone)) = PHONE_DIGITS
    /\ ~startswith(clean_phone(phone), PLACEHOLDER_PREFIX)

is_phone_complete(row) ==
    LET phone_values == contact_values(row)
    IN  IF phone_values = <<>>
        THEN [complete |-> FALSE, status |-> "All phone columns empty"]
        ELSE IF \E i \in 1..Len(phone_values) : valid_phone(phone_values[i])
        THEN [complete |-> TRUE, status |-> "At least one valid phone found"]
        ELSE [complete |-> FALSE, status |-> "No valid phone numbers"]

AtGmail == <<"@", "g", "m", "a", "i", "l", ".", "c", "o", "m">>
NullWord == <<"n", "u", "l", "l">>
DefaultMail == <<"d", "e", "f", "a", "u", "l", "t">> \o AtGmail
TestMail == <<"t", "e", "s", "t">> \o AtGmail

invalid_email_CaseSensitive(email) ==
    \/ email = NullWord
    \/ email = DefaultMail
    \/ email = TestMail
    \/ ~Contains(email, <<"@">>)

invalid_email(email) ==
    LET email_lower == to_lowercase(email)
    IN  \/ email_lower = NullWord
        \/ email_lower = DefaultMail
        \/ email_lower = TestMail
        \/ ~Contains(email, <<"@">>)

is_email_complete(row) ==
    LET email_values == contact_values(row)
    IN  IF email_values = <<>>
        THEN [complete |-> FALSE, status |-> "All email columns empty"]
        ELSE IF \E i \in 1..Len(email_values) : ~invalid_email(email_values[i])
        THEN [complete |-> TRUE, status |-> "At least one valid email found"]
        ELSE [complete |-> FALSE, status |-> "No valid emails"]

\* the member rows explored
PhoneHeads == {PLACEHOLDER_PREFIX, <<"0", "8", "0", "1", "2", "3">>,
               <<"0", "-", "8", "0", "0", "0", "0">>}
PhoneTails == {<<"1", "2", "3", "4", "5">>, <<"1", "2", "3", "4">>,
               <<"1", "2", "3", "4", "5", "6">>, <<"4", "5", "6", "7", "8">>,
               <<"4", "5", " ", "6", "7", "8", " ">>}
PhoneFields ==
    {<<>>, <<<<>>>>, <<<<"n", "a", "n">>>>} \cup {<<h \o t>> : h \in PhoneHeads, t \in PhoneTails}

EmailFields ==
    {<<>>, <<<<>>>>, <<<<"n", "a", "n">>>>, <<NullWord>>, <<<<"N", "U", "L", "L">>>>,
     <<TestMail>>, <<<<"T", "E", "S", "T">> \o AtGmail>>, <<<<" ">> \o TestMail \o <<" ">>>>,
     <<DefaultMail>>, <<<<"a", "@", "b", ".", "c", "o", "m">>>>,
     <<<<"a", "b", ".", "c", "o", "m">>>>, <<<<" ", "@", " ">>>>}

NoContacts == [i \in 1..NumContactCols |-> <<>>]

(***************************************************************************)
(* TARIFFCHECK.py.  Procedure codes are strings; a reference row is        *)
(* [procedurecode, price], a tariff row [tariffname, tariffamount,         *)
(* procedurecode]; the claims of the last year are none, so that every     *)
(* frequency is 0.                                                         *)
(***************************************************************************)
remove_spaces(s) == SelectSeq(s, LAMBDA ch : ch # " ")

normalize_code_KeepSpaces(value) == to_lowercase(strip(value))

\* str(value).strip().lower().replace(" ", "")
normalize_code(value) == remove_spaces(to_lowercase(strip(value)))

\* pd.to_numeric(errors='coerce'): what is no number becomes NaN
to_numeric(c) == IF c.k \in {"num", "inf"} THEN c ELSE NaN

\* load_and_clean_data: the normalized code beside each code, the amounts and
\* prices made numeric
clean(df, col) ==
    [i \in 1..Len(df) |->
        [df[i] EXCEPT ![col] = to_numeric(@)]
            @@ [procedurecode_norm |-> normalize_code(df[i].procedurecode)]]

\* Series.unique(): the values in the order of their first appearance
RECURSIVE unique(_)
unique(s) ==
    IF s = <<>> THEN <<>>
    ELSE LET rest == unique(SubSeq(s, 1, Len(s) - 1))
         IN  IF \E i \in 1..Len(rest) : rest[i] = s[Len(s)] THEN rest
             ELSE Append(rest, s[Len(s)])

SHEET_NAME_LIMIT == 31

sheet_name(code) ==
    SubSeq(code, 1, IF Len(code) < SHEET_NAME_LIMIT THEN Len(code) ELSE SHEET_NAME_LIMIT)

exceeds_OrEqual(amount, price) == IsNum(amount) /\ amount.v >= price.v

\* tariffamount > price_amount; a NaN amount exceeds nothing
exceeds(amount, price) == IsNum(amount) /\ amount.v > price.v

\* sort_values('tariffamount', ascending=False)
RECURSIVE SortByAmountDesc(_)
SortByAmountDesc(rows) ==
    IF rows = <<>> THEN <<>>
    ELSE LET m == CHOOSE i \in 1..Len(rows) :
                      \A j \in 1..Len(rows) : rows[j].tariffamount.v <= rows[i].tariffamount.v
         IN  <<rows[m]>>
                 \o SortByAmountDesc(SubSeq(rows, 1, m - 1) \o SubSeq(rows, m + 1, Len(rows)))

\* one turn of the loop of analyze_tariffs, for the normalized code n: the
\* sheet it creates, if any, and the summary entry it adds, if any
analyze_code(tariffs, firsts, n) ==
    LET first_row == SelectSeq(firsts, LAMBDA r : r.procedurecode_norm = n)
        original_code == first_row[1].procedurecode
        price_amount == first_row[1].price
        filtered_tariffs ==
            SelectSeq(tariffs, LAMBDA t : t.procedurecode_norm = n
                                             /\ exceeds(t.tariffamount, price_amount))
        exceeding_df ==
            SortByAmountDesc(
                [i \in 1..Len(filtered_tariffs) |->
                    [tariffname |-> filtered_tariffs[i].tariffname,
                     tariffamount |-> filtered_tariffs[i].tariffamount,
                     procedurecode |-> filtered_tariffs[i].procedurecode,
                     price_from_first |-> price_amount.v,
                     difference |-> filtered_tariffs[i].tariffamount.v - price_amount.v]])
        total == Len(SelectSeq(tariffs, LAMBDA t : t.procedurecode_norm = n))
    IN  IF ~IsNum(price_amount) THEN [sheets |-> <<>>, summary |-> <<>>]
        ELSE IF filtered_tariffs # <<>>
        THEN [sheets |-> <<[title |-> sheet_name(original_code), rows |-> exceeding_df]>>,
              summary |-> <<[procedurecode |-> original_code,
                             price_from_first |-> price_amount.v,
                             frequency |-> 0,
                             count_exceeding |-> Len(exceeding_df),
                             highest_tariff |-> exceeding_df[1].tariffamount.v,
                             total_procedures_in_tariff |-> total]>>]
        ELSE [sheets |-> <<>>,
              summary |-> <<[procedurecode |-> original_code,
                             price_from_first |-> price_amount.v,
                             frequency |-> 0,
                             count_exceeding |-> 0,
                             highest_tariff |-> 0,
                             total_procedures_in_tariff |-> total]>>]

\* the loop of analyze_tariffs over the unique normalized reference codes
RECURSIVE analyze_loop(_, _, _)
analyze_loop(tariffs, firsts, codes) ==
    IF codes = <<>> THEN [sheets |-> <<>>, summary |-> <<>>]
    ELSE LET one == analyze_code(tariffs, firsts, Head(codes))
             rest == analyze_loop(tariffs, firsts, Tail(codes))
         IN  [sheets |-> one.sheets \o rest.sheets, summary |-> one.summary \o rest.summary]

\* summary_df.sort_values('count_exceeding', ascending=False)
RECURSIVE SortByCountDesc(_)
SortByCountDesc(rows) ==
    IF rows = <<>> THEN <<>>
    ELSE LET m == CHOOSE i \in 1..Len(rows) :
                      \A j \in 1..Len(rows) : rows[j].count_exceeding <= rows[i].count_exceeding
         IN  <<rows[m]>>
                 \o SortByCountDesc(SubSeq(rows, 1, m - 1) \o SubSeq(rows, m + 1, Len(rows)))

\* the reference lists and tariff schedules explored
MaxFirstRows == 2
MaxTariffRows == 2

CodeA == <<"A", "1">>
CodeASpaced == <<" ", "a", " ", "1">>
CodeP == <<"P", "2">>
Codes == {CodeA, CodeASpaced, CodeP}

FirstRows == {[procedurecode |-> c, price |-> p] : c \in Codes, p \in {Num(100), Num(50), Text}}

TariffRows ==
    {[tariffname |-> "T", tariffamount |-> a, procedurecode |-> c] :
        c \in Codes, a \in {Num(100), Num(70)}}

Tables(rows, n) == UNION {[1..k -> rows] : k \in 0..n}

TariffsIdle ==
    /\ tariff_df = <<>> /\ first_df = <<>>
    /\ workbook = <<>> /\ summary_df = <<>>
    /\ tariff_pc = "off"

ContactsIdle ==
    /\ phones = NoContacts /\ emails = NoContacts
    /\ phone_result = <<>> /\ email_result = <<>>
    /\ contact_pc = "off"

(***************************************************************************)
(* negotiation.py.  Prices are floats: Num(n) is n hundredths, PosInf and  *)
(* NaN are the two special values a price file can bring in.  A pricing    *)
(* standard is [procedure_code, frequency, price_level_1..4, nhia_price];  *)
(* normalize_code of negotiation.py has the body of the one above.         *)
(***************************************************************************)
\* a <= b on floats: false as soon as one side is NaN
float_le(a, b) ==
    /\ a.k # "nan" /\ b.k # "nan"
    /\ \/ b.k = "inf"
       \/ a.k = "num" /\ b.k = "num" /\ a.v <= b.v

\* a > b on floats: false as soon as one side is NaN
float_gt(a, b) == a.k # "nan" /\ b.k # "nan" /\ ~float_le(a, b)

\* a - b for a finite b
float_sub(a, b) == IF IsNum(a) THEN Num(a.v - b.v) ELSE a

\* a * n for an integer n >= 0: infinity times 0 is NaN
float_mul(a, n) ==
    IF IsNum(a) THEN Num(a.v * n)
    ELSE IF a.k = "inf" THEN (IF n = 0 THEN NaN ELSE PosInf)
    ELSE a

\* max(0, x): x when x > 0, else the 0 it started from (so for NaN too)
max0(x) == IF float_gt(x, Num(0)) THEN x ELSE Num(0)

\* the truth value of a float or None: None and 0.0 are false, NaN is true
truthy(c) == c.k # "null" /\ ~(IsNum(c) /\ c.v = 0)

Alphabet ==
    <<"A", "B", "C", "D", "E", "F", "G", "H", "I", "J", "K", "L", "M",
      "N", "O", "P", "Q", "R", "S", "T", "U", "V", "W", "X", "Y", "Z">>

Ord(ch) == CHOOSE i \in 1..Len(Alphabet) : Alphabet[i] = ch

\* a < b on strings: by the first character that differs, a proper prefix first
RECURSIVE str_lt(_, _)
str_lt(a, b) ==
    IF b = <<>> THEN FALSE
    ELSE IF a = <<>> THEN TRUE
    ELSE IF Head(a) = Head(b) THEN str_lt(Tail(a), Tail(b))
    ELSE Ord(Head(a)) < Ord(Head(b))

CRITICAL == <<"C", "R", "I", "T", "I", "C", "A", "L">>
HIGH == <<"H", "I", "G", "H">>
MEDIUM == <<"M", "E", "D", "I", "U", "M">>
LOW == <<"L", "O", "W">>

\* the strategies of the four negotiation levels of the sidebar
negotiation_strategies ==
    {[primary_target |-> "price_level_1", fallback_target |-> "nhia_price"],
     [primary_target |-> "price_level_2", fallback_target |-> "price_level_1"],
     [primary_target |-> "price_level_3", fallback_target |-> "price_level_2"],
     [primary_target |-> "price_level_4", fallback_target |-> "price_level_3"]}

\* below the limit, not at it
price_within_Strict(hospital_price, limit) ==
    float_le(hospital_price, limit) /\ hospital_price # limit

\* hospital_price <= limit, the test of each rule of _determine_negotiation_strategy
price_within(hospital_price, limit) == float_le(hospital_price, limit)

\* _determine_negotiation_strategy: the level and the target price (the message
\* is left out); negotiation_strategy is <<>> for None
determine_negotiation_strategy(hospital_price, standard, strategy) ==
    LET level_4 == standard.price_level_4
        nhia_price == IF truthy(standard.nhia_price) THEN standard.nhia_price
                      ELSE standard.price_level_1
        chosen == IF strategy = <<>>
                  THEN [primary_target |-> "price_level_1", fallback_target |-> "nhia_price"]
                  ELSE strategy[1]
        target_prices == [standard EXCEPT !.nhia_price = nhia_price]
        primary_price == target_prices[chosen.primary_target]
        fallback_price == target_prices[chosen.fallback_target]
    IN  IF price_within(hospital_price, primary_price)
        THEN IF chosen.primary_target = "price_level_1"
             THEN [current_level |-> "EXCELLENT",
                   target_price |-> Num((hospital_price.v * 95) \div 100)]
             ELSE [current_level |-> "GOOD", target_price |-> hospital_price]
        ELSE IF price_within(hospital_price, fallback_price)
        THEN [current_level |-> "ACCEPTABLE", target_price |-> primary_price]
        ELSE IF price_within(hospital_price, level_4)
        THEN [current_level |-> "NEGOTIATE", target_price |-> primary_price]
        ELSE [current_level |-> "REJECT", target_price |-> primary_price]

\* the priority by the level and the impact alone
calculate_priority_NoFrequency(annual_impact, current_level, frequency) ==
    IF current_level \in {"REJECT", "UNACCEPTABLE"} \/ float_gt(annual_impact, Num(5000000))
    THEN CRITICAL
    ELSE IF current_level \in {"NEGOTIATE", "MAXIMUM"} \/ float_gt(annual_impact, Num(1000000))
    THEN HIGH
    ELSE IF current_level = "ACCEPTABLE" \/ float_gt(annual_impact, Num(100000))
    THEN MEDIUM
    ELSE LOW

\* _calculate_priority; the thresholds are 50000, 10000 and 1000 currency units
calculate_priority(annual_impact, current_level, frequency) ==
    IF current_level \in {"REJECT", "UNACCEPTABLE"} \/ float_gt(annual_impact, Num(5000000))
    THEN CRITICAL
    ELSE IF \/ current_level \in {"NEGOTIATE", "MAXIMUM"}
            \/ float_gt(annual_impact, Num(1000000))
            \/ frequency > 100
    THEN HIGH
    ELSE IF \/ current_level = "ACCEPTABLE"
            \/ float_gt(annual_impact, Num(100000))
            \/ frequency > 50
    THEN MEDIUM
    ELSE LOW

\* the result row of one tariff entry (the body of the loop of
\* analyze_hospital_tariff); ai_confidence is in tenths
analysis_row(entry, stds, strategy) ==
    IF entry.procedure_code \notin DOMAIN stds
    THEN [procedure_code |-> entry.procedure_code,
          hospital_price |-> entry.price,
          current_level |-> "NOT_IN_STANDARD",
          target_price |-> Null,
          potential_savings |-> Null,
          priority |-> LOW,
          frequency |-> 0,
          annual_impact |-> Num(0),
          ai_confidence |-> 0]
    ELSE LET standard == stds[entry.procedure_code]
             found == determine_negotiation_strategy(entry.price, standard, strategy)
             potential_savings ==
                 IF truthy(found.target_price)
                 THEN max0(float_sub(entry.price, found.target_price))
                 ELSE Num(0)
             annual_impact == float_mul(potential_savings, standard.frequency)
         IN  [procedure_code |-> entry.procedure_code,
              hospital_price |-> entry.price,
              current_level |-> found.current_level,
              target_price |-> found.target_price,
              potential_savings |-> potential_savings,
              priority |-> calculate_priority(annual_impact, found.current_level,
                                              standard.frequency),
              frequency |-> standard.frequency,
              annual_impact |-> annual_impact,
              ai_confidence |-> 0]

\* whether row a goes before row b under
\* sort_values(['priority', 'annual_impact'], ascending=[False, False]): the
\* priority strings compared as strings, the greater first; then the greater
\* impact first, NaN last
sorts_before(a, b) ==
    \/ str_lt(b.priority, a.priority)
    \/ /\ a.priority = b.priority
       /\ a.annual_impact.k # "nan"
       /\ b.annual_impact.k = "nan" \/ float_gt(a.annual_impact, b.annual_impact)

\* the rows in that order, rows that tie in the order they had
RECURSIVE sort_values(_)
sort_values(rows) ==
    IF rows = <<>> THEN <<>>
    ELSE LET firsts == {i \in 1..Len(rows) :
                           \A j \in 1..Len(rows) : ~sorts_before(rows[j], rows[i])}
             m == CHOOSE i \in firsts : \A j \in firsts : i <= j
         IN  <<rows[m]>>
                 \o sort_values(SubSeq(rows, 1, m - 1) \o SubSeq(rows, m + 1, Len(rows)))

\* _calculate_ai_confidence, in tenths; no market data is loaded, so market_avg is 0
calculate_ai_confidence(row) ==
    LET score == 10 - (IF row.frequency = 0 THEN 2 ELSE 0)
                    - (IF truthy(row.hospital_price) THEN 0 ELSE 3)
                    - (IF row.current_level = "NOT_IN_STANDARD" THEN 4 ELSE 0)
    IN  IF score < 1 THEN 1 ELSE IF score > 10 THEN 10 ELSE score

\* how many rows one AI enhancement asks the API about: head(3)
AI_ITEMS == 3

\* the CRITICAL rows _enhance_with_ai_strategies asks the API about
priority_items(df) ==
    LET critical == {i \in 1..Len(df) : df[i].priority = CRITICAL}
    IN  {i \in critical : Cardinality({j \in critical : j < i}) < AI_ITEMS}

\* _enhance_with_ai_strategies: the confidence of each row asked about, or 0.0
\* when the request fails
enhance_with_ai_strategies(df, api_ok) ==
    [i \in 1..Len(df) |->
        IF i \in priority_items(df) /\ api_ok
        THEN [df[i] EXCEPT !.ai_confidence = calculate_ai_confidence(df[i])]
        ELSE df[i]]

\* analyze_hospital_tariff without its AI part: one row per entry, sorted; with
\* no row at all the frame has no column to sort by and sort_values raises
analyze_hospital_tariff(tariff, stds, strategy) ==
    LET results == [i \in 1..Len(tariff) |-> analysis_row(tariff[i], stds, strategy)]
    IN  IF results = <<>> THEN [raised |-> TRUE, df |-> <<>>]
        ELSE [raised |-> FALSE, df |-> sort_values(results)]

\* dict[code] = value: the value replaced where the key is, a new key at the end
dict_set(d, code, price) ==
    IF \E i \in 1..Len(d) : d[i].procedure_code = code
    THEN [i \in 1..Len(d) |->
             IF d[i].procedure_code = code THEN [d[i] EXCEPT !.price = price] ELSE d[i]]
    ELSE Append(d, [procedure_code |-> code, price |-> price])

\* load_hospital_tariff_from_dataframe: the normalized code and the numeric
\* price of every row with a code and a price above 0
RECURSIVE load_hospital_tariff_from_dataframe(_)
load_hospital_tariff_from_dataframe(df) ==
    IF df = <<>> THEN <<>>
    ELSE LET before == load_hospital_tariff_from_dataframe(SubSeq(df, 1, Len(df) - 1))
             row == df[Len(df)]
             code == strip(normalize_code(row.procedure_code))
             price == to_numeric(row.price)
         IN  IF code # <<>> /\ float_gt(price, Num(0))
             THEN dict_set(before, code, price)
             ELSE before

\* whether load_standards_from_dataframe keeps a row: every price level a
\* number above 0, the levels ascending, the frequency not negative
valid_standard(row) ==
    /\ \A col \in {"price_level_1", "price_level_2", "price_level_3", "price_level_4"} :
           to_numeric(row[col]).k # "nan" /\ float_gt(row[col], Num(0))
    /\ row.frequency >= 0
    /\ float_le(row.price_level_1, row.price_level_2)
    /\ float_le(row.price_level_2, row.price_level_3)
    /\ float_le(row.price_level_3, row.price_level_4)

\* load_standards_from_dataframe: the standards by normalized code, a later row
\* of a code replacing an earlier one
RECURSIVE load_standards_from_dataframe(_)
load_standards_from_dataframe(df) ==
    IF df = <<>> THEN <<>>
    ELSE LET before == load_standards_from_dataframe(SubSeq(df, 1, Len(df) - 1))
             row == df[Len(df)]
             code == strip(normalize_code(row.procedure_code))
         IN  IF valid_standard(row)
             THEN [c \in DOMAIN before \cup {code} |->
                      IF c = code THEN [row EXCEPT !.procedure_code = code] ELSE before[c]]
             ELSE before

\* the standards files and tariff files explored
MaxStandardRows == 2
MaxHospitalRows == 2

StandardRow(code, frequency, level_1, nhia) ==
    [procedure_code |-> code, frequency |-> frequency,
     price_level_1 |-> Num(level_1), price_level_2 |-> Num(8500),
     price_level_3 |-> Num(9500), price_level_4 |-> Num(11000),
     nhia_price |-> Num(nhia)]

StandardRows ==
    {StandardRow(CodeA, f, 7500, n) : f \in {0, 2000}, n \in {8000, 0}}
        \cup {StandardRow(CodeP, 60, 7500, 8000), StandardRow(CodeP, 200, 9000, 8000)}

HospitalRows ==
    {[procedure_code |-> c, price |-> p] :
        c \in Codes, p \in {Num(7500), Num(11000), Num(18000), PosInf}}
        \cup {[procedure_code |-> CodeA, price |-> Num(7800)],
              [procedure_code |-> CodeA, price |-> Text]}

\* no key, a key that is not of the form sk-..., a key of that form
NoKey == <<>>
MalformedKey == <<"k", "e", "y">>
SkKey == <<"s", "k", "-", "1">>

NegotiationIdle ==
    /\ standards_df = <<>> /\ hospital_df = <<>>
    /\ negotiation_strategy = <<>>
    /\ use_ai = FALSE /\ openai_api_key = <<>>
    /\ hospital_tariff = <<>> /\ standards = <<>>
    /\ ai_enabled = FALSE /\ openai_client = FALSE /\ ai_calls = 0
    /\ analysis_df = <<>>
    /\ neg_pc = "off"

(***************************************************************************)
(* The utilization section of the dashboard (src/MLR.py, from line 902).   *)
(* A date is a day number; every change of an input and every press of    *)
(* the button runs the script once.                                        *)
(***************************************************************************)
MaxUtilDay == 3
MaxPlanCount == 2
UtilGroups == {"A", "B"}

\* the part of a run from the submit button on: the validation of a
\* submission, the flag, and what the section shows
utilization_run(start, end, plans, generated, pressed) ==
    LET errors == IF ~pressed THEN {}
                  ELSE IF start > end THEN {"date_error"}
                  ELSE IF plans <= 0 THEN {"plan_error"}
                  ELSE {}
        flag == generated \/ (pressed /\ errors = {})
    IN  [report_generated |-> flag,
         shown |-> errors \cup (IF flag THEN {"report"} ELSE {})]

UtilizationIdle ==
    /\ selected_group = "A" /\ start_date = 1 /\ end_date = 1 /\ plan_count = 1
    /\ report_generated = FALSE /\ submitted = FALSE /\ util_shown = {}

(***************************************************************************)
(* dashboard.py: filter_by_month_range.  A timestamp is [month, day, hour] *)
(* within one year of MaxMonth months of DaysInMonth days.                 *)
(***************************************************************************)
MaxMonth == 3
DaysInMonth == 3
MaxRequestRows == 2
Hours == {0, 12}

Timestamp(month, day, hour) == [month |-> month, day |-> day, hour |-> hour]

\* a <= b on timestamps
ts_le(a, b) ==
    \/ a.month < b.month
    \/ a.month = b.month /\ a.day < b.day
    \/ a.month = b.month /\ a.day = b.day /\ a.hour <= b.hour

\* ts + pd.offsets.MonthEnd(0): the same time of day on the last day of the month
MonthEnd0(ts) == [ts EXCEPT !.day = DaysInMonth]

\* filter_by_month_range
filter_by_month_range(df, start, end) ==
    IF df = <<>> THEN df
    ELSE LET first == Timestamp(start.month, 1, 0)
             last == MonthEnd0(Timestamp(end.month, 1, 0))
         IN  SelectSeq(df, LAMBDA r : ts_le(first, r.requestdate) /\ ts_le(r.requestdate, last))

Timestamps == {Timestamp(m, d, h) : m \in 1..MaxMonth, d \in 1..DaysInMonth, h \in Hours}

\* what a date input gives: a day at midnight
DateInputs == {Timestamp(m, d, 0) : m \in 1..MaxMonth, d \in 1..DaysInMonth}

MonthsIdle ==
    /\ requests_df = <<>> /\ df_filtered = <<>>
    /\ start_month = Timestamp(1, 1, 0) /\ end_month = Timestamp(1, 1, 0)
    /\ month_pc = "off"

CacheIdle ==
    /\ db_fault = "none" /\ data_cache = <<>> /\ cache_age = 0 /\ db_queries = 0
    /\ run_value = "unset" /\ served_from_cache = FALSE
    /\ cache_pc = "off"

SessionsIdle ==
    /\ alert_table = <<>> /\ session_sent = <<>> /\ mailbox = <<>> /\ reloads = 0
    /\ sess_pc = "off"

AuxIdle == ContactsIdle /\ TariffsIdle /\ NegotiationIdle /\ UtilizationIdle /\ MonthsIdle /\ CacheIdle /\ SessionsIdle

\* what can go wrong while load_data_from_sources runs: no connection strings,
\* a connection that cannot be opened, a query that raises
LoadFaults == {"none", "strings", "connect_medicloud", "query_medicloud",
               "connect_eacount", "query_eacount"}

Connections == {"medicloud", "eacount"}

\* the browser sessions of the dashboard, and how often a page is reloaded
Sessions == {"s1", "s2", "s3"}
MaxReloads == 2

\* what load_data_from_sources can return
LoadValues == {"tables", "twelve None", "None"}

CACHE_TTL_HOURS == 3     \* ttl=10800 seconds, in hours
MaxQueries == 3

\* load_data_from_sources: what it returns and the connections it has not closed.
\* The MediCloud connection is opened, queried and closed, then the EACOUNT one;
\* the except branch returns twelve None and closes nothing. A connection the
\* function has not closed stays open unless the interpreter finalizes it when
\* the frame of the function goes (reference counting does, other collectors
\* need not).
load_data_from_sources(fault) ==
    IF fault = "strings" THEN [value |-> "None", open |-> {}]
    ELSE IF fault = "connect_medicloud" THEN [value |-> "twelve None", open |-> {}]
    ELSE IF fault = "query_medicloud" THEN [value |-> "twelve None", open |-> {"medicloud"}]
    ELSE IF fault = "connect_eacount" THEN [value |-> "twelve None", open |-> {}]
    ELSE IF fault = "query_eacount" THEN [value |-> "twelve None", open |-> {"eacount"}]
    ELSE [value |-> "tables", open |-> {}]

NumRows == Len(GROUP_CONTRACT) + Len(PA) + Len(CLAIMS) + Len(DEBIT)

TypeOK ==
    /\ pc \in {"db", "loaded", "calculated", "alerted", "rendered", "done", "crashed", "off"}
    /\ load_fault \in LoadFaults
    /\ loaded \in {"unset", "tables", "twelve None"}
    /\ open_conns \subseteq Connections
    /\ finalizer_closes \in BOOLEAN
    /\ contact_pc \in {"off", "phone", "email", "done"}
    /\ Len(phones) = NumContactCols /\ Len(emails) = NumContactCols
    /\ Len(phone_result) <= 1 /\ Len(email_result) <= 1
    /\ tariff_pc \in {"off", "read", "cleaned", "saved", "failed"}
    /\ selected_group \in UtilGroups
    /\ start_date \in 1..MaxUtilDay /\ end_date \in 1..MaxUtilDay
    /\ plan_count \in 1..MaxPlanCount
    /\ report_generated \in BOOLEAN /\ submitted \in BOOLEAN
    /\ util_shown \subseteq {"date_error", "plan_error", "report"}
    /\ month_pc \in {"off", "loaded", "no_data", "no_rows", "filtered"}
    /\ db_fault \in LoadFaults
    /\ data_cache \in {<<>>} \cup {<<v>> : v \in LoadValues}
    /\ cache_age \in 0..CACHE_TTL_HOURS /\ db_queries \in 0..MaxQueries
    /\ run_value \in {"unset"} \cup LoadValues
    /\ served_from_cache \in BOOLEAN
    /\ cache_pc \in {"off", "idle"}
    /\ DOMAIN session_sent \subseteq Sessions
    /\ reloads \in 0..MaxReloads
    /\ sess_pc \in {"off", "serving"}
    /\ Len(requests_df) <= MaxRequestRows /\ Len(df_filtered) <= Len(requests_df)
    /\ start_month \in DateInputs /\ end_month \in DateInputs
    /\ neg_pc \in {"off", "files", "tariff", "negotiator", "standards", "analyzed",
                  "failed", "stopped"}
    /\ Len(standards_df) <= MaxStandardRows /\ Len(hospital_df) <= MaxHospitalRows
    /\ Len(hospital_tariff) <= Len(hospital_df)
    /\ Len(analysis_df) <= Len(hospital_tariff)
    /\ use_ai \in BOOLEAN /\ ai_enabled \in BOOLEAN /\ openai_client \in BOOLEAN
    /\ ai_calls \in 0..(1 + AI_ITEMS)
    /\ Len(tariff_df) <= MaxTariffRows /\ Len(first_df) <= MaxFirstRows
    /\ coalesce \in BOOLEAN
    /\ scenario \in Scenarios \cup MainScenarios \cup RetailScenarios
    /\ cursor \in 1..Len(Pool[scenario])
    /\ NumRows <= MaxRows
    /\ mlr_error \in BOOLEAN /\ retail_error \in BOOLEAN
    /\ email_alerts_enabled \in BOOLEAN /\ smtp_ok \in BOOLEAN /\ alert_checked \in BOOLEAN
    /\ email_password \in Passwords
    /\ shown \subseteq Outputs

\* before the script has run: empty results, a fresh session, an empty page
Fresh ==
    /\ pc = "db"
    /\ cursor = 1
    /\ GROUPS = GroupsOf(scenario)
    /\ PA = <<>> /\ GROUP_CONTRACT = <<>> /\ CLAIMS = <<>> /\ DEBIT = <<>>
    /\ pa_merged = <<>> /\ claims_merged = <<>>
    /\ mlr_error = FALSE
    /\ sent_notifications = {} /\ attempts = <<>> /\ alerts_sent = <<>>
    /\ alert_checked = FALSE /\ outbox = <<>>
    /\ shown = {}
    /\ result_df = <<>> /\ merged_plan_df = <<>> /\ retail_error = FALSE
    /\ loaded = "unset" /\ open_conns = {}
    /\ AuxIdle

\* the behaviours that stop after calculate_mlr: every scenario of the MLR
\* tables, no retail data, the sidebar left as it is
Init ==
    /\ coalesce \in BOOLEAN
    /\ scenario \in Scenarios
    /\ ACTIVE_ENROLLEE = <<>> /\ M_PLAN = <<>> /\ G_PLAN = <<>> /\ PLAN = <<>>
    /\ email_alerts_enabled = TRUE /\ email_password = "" /\ smtp_ok = FALSE
    /\ load_fault = "none" /\ finalizer_closes = TRUE
    /\ Fresh

\* the behaviours of a whole script run
InitMain ==
    /\ coalesce \in BOOLEAN
    /\ scenario \in MainScenarios
    /\ \E w \in RetailWorlds :
          /\ ACTIVE_ENROLLEE = w.ACTIVE_ENROLLEE /\ M_PLAN = w.M_PLAN
          /\ G_PLAN = w.G_PLAN /\ PLAN = w.PLAN
    /\ email_alerts_enabled \in BOOLEAN
    /\ email_password \in Passwords
    /\ smtp_ok \in BOOLEAN
    /\ load_fault = "none" /\ finalizer_closes = TRUE
    /\ Fresh

\* the behaviours of a script run whose data load may fail
InitLoad ==
    /\ coalesce = TRUE
    /\ scenario \in MainScenarios
    /\ \E w \in RetailWorlds :
          /\ ACTIVE_ENROLLEE = w.ACTIVE_ENROLLEE /\ M_PLAN = w.M_PLAN
          /\ G_PLAN = w.G_PLAN /\ PLAN = w.PLAN
    /\ email_alerts_enabled = TRUE /\ email_password = "" /\ smtp_ok = FALSE
    /\ load_fault \in LoadFaults
    /\ finalizer_closes \in BOOLEAN
    /\ Fresh

\* one more row in the databases
InsertRow ==
    /\ pc = "db"
    /\ NumRows < MaxRows
    /\ \E i \in cursor..Len(Pool[scenario]) :
        LET tab == Pool[scenario][i][1]
            row == Pool[scenario][i][2]
        IN  /\ cursor' = i
            /\ GROUP_CONTRACT' = IF tab = "GROUP_CONTRACT" THEN Append(GROUP_CONTRACT, row)
                                 ELSE GROUP_CONTRACT
            /\ PA' = IF tab = "PA" THEN Append(PA, row) ELSE PA
            /\ CLAIMS' = IF tab = "CLAIMS" THEN Append(CLAIMS, row) ELSE CLAIMS
            /\ DEBIT' = IF tab = "DEBIT" THEN Append(DEBIT, row) ELSE DEBIT
    /\ UNCHANGED <<GROUPS, ACTIVE_ENROLLEE, M_PLAN, G_PLAN, PLAN, inputvars, pc, mlrvars,
                   alertvars, shown, retailvars, loadvars,
                   auxvars>>

\* the script calls load_data_from_sources and unpacks what it returns into the
\* twelve tables: the tables as the databases hold them, or twelve None, or the
\* TypeError of unpacking a single None, which ends the run
LoadData ==
    /\ pc = "db"
    /\ LET ret == load_data_from_sources(load_fault)
       IN  /\ open_conns' = (IF finalizer_closes THEN {} ELSE ret.open)
           /\ IF ret.value = "None"
              THEN /\ pc' = "crashed"
                   /\ UNCHANGED loaded
              ELSE /\ pc' = "loaded"
                   /\ loaded' = ret.value
    /\ UNCHANGED <<dbvars, inputvars, cursor, mlrvars, alertvars, shown, retailvars, load_fault,
                   finalizer_closes, auxvars>>

\* the else branch of the test that all twelve tables are there
ShowLoadFailure ==
    /\ pc = "loaded"
    /\ loaded # "tables"
    /\ pc' = "done"
    /\ shown' = shown \cup {"load_failed"}
    /\ UNCHANGED <<dbvars, inputvars, cursor, mlrvars, alertvars, retailvars, loadvars,
                   auxvars>>

\* calculate_mlr: the two result tables, or two empty tables from the except branch
CalculateMlr ==
    /\ pc = "loaded"
    /\ loaded = "tables"
    /\ pc' = "calculated"
    /\ IF claims_cast_raises
       THEN /\ pa_merged' = <<>>
            /\ claims_merged' = <<>>
            /\ mlr_error' = TRUE
       ELSE /\ pa_merged' = calc_pa_merged
            /\ claims_merged' = calc_claims_merged
            /\ mlr_error' = FALSE
    /\ UNCHANGED <<dbvars, inputvars, cursor, alertvars, shown, retailvars, loadvars,
                   auxvars>>

\* the alert block of the main script: the guarded call of check_and_send_alerts
\* and the display of its outcome
CheckAlerts ==
    /\ pc = "calculated"
    /\ pc' = "alerted"
    /\ IF alerts_guard
       THEN LET run == check_and_send_alerts(pa_merged, claims_merged)
            IN  /\ alert_checked' = TRUE
                /\ sent_notifications' = run.sent
                /\ attempts' = run.attempts
                /\ alerts_sent' = run.alerts
                /\ outbox' = outbox \o run.alerts
       ELSE /\ alert_checked' = FALSE
            /\ alerts_sent' = <<>>
            /\ UNCHANGED <<sent_notifications, attempts, outbox>>
    /\ shown' = shown \cup
                 (IF alerts_sent' # <<>> THEN {"alerts_success"}
                  ELSE IF email_alerts_enabled /\ email_password # "" THEN {"no_new_alerts"}
                  ELSE {})
    /\ UNCHANGED <<dbvars, inputvars, cursor, mlrvars, retailvars, loadvars,
                   auxvars>>

\* the two MLR tables of the page, or a warning in the place of an empty one,
\* or nothing at all when both are empty
RenderMlr ==
    /\ pc = "alerted"
    /\ pc' = "rendered"
    /\ shown' = shown \cup render_mlr(pa_merged, claims_merged)
    /\ UNCHANGED <<dbvars, inputvars, cursor, mlrvars, alertvars, retailvars, loadvars,
                   auxvars>>

\* the retail section: calculate_retail_mlr and the display of its two tables
RetailSection ==
    /\ pc = "rendered"
    /\ pc' = "done"
    /\ IF retail_cast_raises
       THEN /\ result_df' = <<>>
            /\ merged_plan_df' = <<>>
            /\ retail_error' = TRUE
       ELSE /\ result_df' = calc_result_df
            /\ merged_plan_df' = calc_merged_plan_df
            /\ retail_error' = FALSE
    /\ shown' = shown \cup render_retail(result_df', merged_plan_df')
    /\ UNCHANGED <<dbvars, inputvars, cursor, mlrvars, alertvars, loadvars,
                   auxvars>>

Next == InsertRow \/ LoadData \/ CalculateMlr

Spec == Init /\ [][Next]_vars

NextMain == InsertRow \/ LoadData \/ CalculateMlr \/ CheckAlerts \/ RenderMlr \/ RetailSection

SpecMain == InitMain /\ [][NextMain]_vars

NextLoad == NextMain \/ ShowLoadFailure

\* the behaviours of a script run over the retail scenario
InitRetail ==
    /\ coalesce = TRUE
    /\ scenario \in RetailScenarios
    /\ \E w \in RetailCases :
          /\ ACTIVE_ENROLLEE = w.ACTIVE_ENROLLEE /\ M_PLAN = w.M_PLAN
          /\ G_PLAN = w.G_PLAN /\ PLAN = w.PLAN
    /\ email_alerts_enabled = TRUE /\ email_password = "" /\ smtp_ok = FALSE
    /\ load_fault = "none" /\ finalizer_closes = TRUE
    /\ Fresh

SpecRetail == InitRetail /\ [][NextMain]_vars

SpecLoad == InitLoad /\ [][NextLoad]_vars

\* the dashboard script is not running
ScriptIdle ==
    /\ coalesce = TRUE /\ scenario = "main" /\ cursor = 1 /\ pc = "off"
    /\ GROUPS = <<>> /\ PA = <<>> /\ GROUP_CONTRACT = <<>> /\ CLAIMS = <<>> /\ DEBIT = <<>>
    /\ ACTIVE_ENROLLEE = <<>> /\ M_PLAN = <<>> /\ G_PLAN = <<>> /\ PLAN = <<>>
    /\ email_alerts_enabled = TRUE /\ email_password = "" /\ smtp_ok = FALSE
    /\ pa_merged = <<>> /\ claims_merged = <<>> /\ mlr_error = FALSE
    /\ sent_notifications = {} /\ attempts = <<>> /\ alerts_sent = <<>>
    /\ alert_checked = FALSE /\ outbox = <<>>
    /\ shown = {}
    /\ result_df = <<>> /\ merged_plan_df = <<>> /\ retail_error = FALSE
    /\ load_fault = "none" /\ loaded = "unset" /\ open_conns = {}
    /\ finalizer_closes = TRUE

(***************************************************************************)
(* A session of the dashboard: the script reruns on every interaction,     *)
(* st.session_state lives on from run to run.  The data of the moment and  *)
(* calculate_mlr give each run any two result tables, of which the alert   *)
(* check reads the group name and the ratio.                               *)
(***************************************************************************)
MaxAlertRows == 1

AlertRow(g, m) == [groupname |-> <<g>>, mlr |-> m]

\* the result tables of a run: up to MaxAlertRows rows, a group at most once
SessionTables(groups, ratios) ==
    {t \in UNION {[1..k -> {AlertRow(g, m) : g \in groups, m \in ratios}] :
                     k \in 0..MaxAlertRows} :
        \A i, j \in 1..Len(t) : t[i].groupname = t[j].groupname => i = j}

\* the script runs down to the alert block, with the sidebar as the user left
\* it and the mail server as it is
Rerun ==
    /\ pc \in {"off", "done"}
    /\ pc' = "calculated"
    /\ email_password' \in Passwords
    /\ smtp_ok' \in BOOLEAN
    /\ pa_merged' \in SessionTables({"A", "A_PA"}, {Num(6000), Num(6500), Num(9000)})
    /\ claims_merged' \in SessionTables({"A"}, {Num(9000)})
    /\ mlr_error' = FALSE
    /\ attempts' = <<>> /\ alerts_sent' = <<>> /\ alert_checked' = FALSE
    /\ shown' = {}
    /\ result_df' = <<>> /\ merged_plan_df' = <<>> /\ retail_error' = FALSE
    /\ UNCHANGED <<dbvars, coalesce, scenario, email_alerts_enabled, cursor,
                   sent_notifications, outbox, loadvars, auxvars>>

\* the "Clear Notification History" button, at the end of the run it caused
ClearHistory ==
    /\ pc = "done"
    /\ sent_notifications' = {}
    /\ outbox' = <<>>
    /\ shown' = shown \cup {"history_cleared"}
    /\ UNCHANGED <<dbvars, inputvars, cursor, pc, mlrvars, attempts, alerts_sent,
                   alert_checked, retailvars, loadvars, auxvars>>

\* a fresh session
InitSession == ScriptIdle /\ AuxIdle

NextSession == Rerun \/ CheckAlerts \/ RenderMlr \/ RetailSection \/ ClearHistory

SpecSession == InitSession /\ [][NextSession]_vars

(***************************************************************************)
(* analyze_incomplete_contacts on one member row                           *)
(***************************************************************************)
\* a member row with any phone fields, or with any e-mail fields
InitContacts ==
    /\ ScriptIdle /\ TariffsIdle /\ NegotiationIdle /\ UtilizationIdle /\ MonthsIdle /\ CacheIdle /\ SessionsIdle
    /\ \/ phones \in [1..NumContactCols -> PhoneFields] /\ emails = NoContacts
       \/ emails \in [1..NumContactCols -> EmailFields] /\ phones = NoContacts
    /\ phone_result = <<>> /\ email_result = <<>>
    /\ contact_pc = "phone"

\* members_df.apply(is_phone_complete, axis=1, result_type='expand')
ApplyPhoneAnalysis ==
    /\ contact_pc = "phone"
    /\ contact_pc' = "email"
    /\ phone_result' = <<is_phone_complete(phones)>>
    /\ UNCHANGED <<notcontactvars, phones, emails, email_result>>

\* members_df.apply(is_email_complete, axis=1, result_type='expand')
ApplyEmailAnalysis ==
    /\ contact_pc = "email"
    /\ contact_pc' = "done"
    /\ email_result' = <<is_email_complete(emails)>>
    /\ UNCHANGED <<notcontactvars, phones, emails, phone_result>>

NextContacts == ApplyPhoneAnalysis \/ ApplyEmailAnalysis

SpecContacts == InitContacts /\ [][NextContacts]_vars

(***************************************************************************)
(* The tariff check: main of TARIFFCHECK.py                                *)
(***************************************************************************)
\* any reference list and any tariff schedule, as read
InitTariffs ==
    /\ ScriptIdle /\ ContactsIdle /\ NegotiationIdle /\ UtilizationIdle /\ MonthsIdle /\ CacheIdle /\ SessionsIdle
    /\ tariff_df \in Tables(TariffRows, MaxTariffRows)
    /\ first_df \in Tables(FirstRows, MaxFirstRows)
    /\ workbook = <<>> /\ summary_df = <<>>
    /\ tariff_pc = "read"

\* the rest of load_and_clean_data, once both tables are read
CleanData ==
    /\ tariff_pc = "read"
    /\ tariff_pc' = "cleaned"
    /\ tariff_df' = clean(tariff_df, "tariffamount")
    /\ first_df' = clean(first_df, "price")
    /\ UNCHANGED <<nottariffvars, workbook, summary_df>>

\* analyze_tariffs: the sheets, the sorted summary and the saved workbook; with
\* no summary entry at all, sorting the column-less summary raises KeyError and
\* nothing is saved
AnalyzeTariffs ==
    /\ tariff_pc = "cleaned"
    /\ LET unique_procedures == unique(Column(first_df, "procedurecode_norm"))
           out == analyze_loop(tariff_df, first_df, unique_procedures)
       IN  IF out.summary = <<>>
           THEN /\ tariff_pc' = "failed"
                /\ UNCHANGED <<workbook, summary_df>>
           ELSE /\ tariff_pc' = "saved"
                /\ workbook' = out.sheets
                /\ summary_df' = SortByCountDesc(out.summary)
    /\ UNCHANGED <<nottariffvars, tariff_df, first_df>>

NextTariffs == CleanData \/ AnalyzeTariffs

SpecTariffs == InitTariffs /\ [][NextTariffs]_vars

(***************************************************************************)
(* The negotiation page: main of negotiation.py, once both files are       *)
(* uploaded.  No market data is loaded.                                    *)
(***************************************************************************)
\* any standards file, any tariff file, any negotiation level or none (the
\* default of analyze_hospital_tariff); the key is asked for only when the AI
\* box is checked
InitNegotiation ==
    /\ ScriptIdle /\ ContactsIdle /\ TariffsIdle /\ UtilizationIdle /\ MonthsIdle /\ CacheIdle /\ SessionsIdle
    /\ standards_df \in Tables(StandardRows, MaxStandardRows)
    /\ hospital_df \in Tables(HospitalRows, MaxHospitalRows)
    /\ negotiation_strategy \in {<<>>} \cup {<<s>> : s \in negotiation_strategies}
    /\ use_ai \in BOOLEAN
    /\ openai_api_key \in (IF use_ai THEN {NoKey, MalformedKey, SkKey} ELSE {NoKey})
    /\ hospital_tariff = <<>> /\ standards = <<>>
    /\ ai_enabled = FALSE /\ openai_client = FALSE /\ ai_calls = 0
    /\ analysis_df = <<>>
    /\ neg_pc = "files"

\* hospital_tariff = load_hospital_tariff_from_dataframe(hospital_df); the page
\* stops with an error when no price is valid
LoadHospitalTariff ==
    /\ neg_pc = "files"
    /\ hospital_tariff' = load_hospital_tariff_from_dataframe(hospital_df)
    /\ neg_pc' = (IF hospital_tariff' = <<>> THEN "stopped" ELSE "tariff")
    /\ UNCHANGED <<notnegvars, standards_df, hospital_df, negotiation_strategy, use_ai,
                   openai_api_key, standards, ai_enabled, openai_client, ai_calls,
                   analysis_df>>

\* HospitalPriceNegotiator(openai_api_key if use_ai else None, enable_ai=use_ai):
\* with a key of the form sk-... the client is made and one test request is
\* sent; AI is enabled when the request succeeds
InitNegotiator ==
    /\ neg_pc = "tariff"
    /\ neg_pc' = "negotiator"
    /\ LET key == IF use_ai THEN openai_api_key ELSE NoKey
       IN  IF use_ai /\ key # NoKey /\ startswith(key, <<"s", "k", "-">>)
           THEN /\ openai_client' = TRUE
                /\ ai_calls' = ai_calls + 1
                /\ ai_enabled' \in BOOLEAN
           ELSE UNCHANGED <<openai_client, ai_calls, ai_enabled>>
    /\ UNCHANGED <<notnegvars, standards_df, hospital_df, negotiation_strategy, use_ai,
                   openai_api_key, hospital_tariff, standards, analysis_df>>

\* negotiator.load_standards_from_dataframe(standards_df); the page stops with
\* an error when no standard is valid
LoadStandards ==
    /\ neg_pc = "negotiator"
    /\ standards' = load_standards_from_dataframe(standards_df)
    /\ neg_pc' = (IF standards' = <<>> THEN "stopped" ELSE "standards")
    /\ UNCHANGED <<notnegvars, standards_df, hospital_df, negotiation_strategy, use_ai,
                   openai_api_key, hospital_tariff, ai_enabled, openai_client, ai_calls,
                   analysis_df>>

\* negotiator.analyze_hospital_tariff(hospital_tariff, ...,
\* use_ai=use_ai and bool(openai_api_key), negotiation_strategy=selected_strategy)
AnalyzeHospitalTariff ==
    /\ neg_pc = "standards"
    /\ LET out == analyze_hospital_tariff(hospital_tariff, standards, negotiation_strategy)
           with_ai == (use_ai /\ openai_api_key # NoKey) /\ ai_enabled /\ openai_client
       IN  IF out.raised
           THEN /\ neg_pc' = "failed"
                /\ UNCHANGED <<analysis_df, ai_calls>>
           ELSE /\ neg_pc' = "analyzed"
                /\ IF with_ai
                   THEN /\ ai_calls' = ai_calls + Cardinality(priority_items(out.df))
                        /\ \E api_ok \in BOOLEAN :
                               analysis_df' = enhance_with_ai_strategies(out.df, api_ok)
                   ELSE /\ analysis_df' = out.df
                        /\ UNCHANGED ai_calls
    /\ UNCHANGED <<notnegvars, standards_df, hospital_df, negotiation_strategy, use_ai,
                   openai_api_key, hospital_tariff, standards, ai_enabled, openai_client>>

NextNegotiation ==
    LoadHospitalTariff \/ InitNegotiator \/ LoadStandards \/ AnalyzeHospitalTariff

SpecNegotiation == InitNegotiation /\ [][NextNegotiation]_vars

(***************************************************************************)
(* The utilization form: its session state from one run to the next        *)
(***************************************************************************)
\* after the first run of a session: the defaults, a start date before the end
\* date, no report
InitUtilization ==
    /\ ScriptIdle /\ ContactsIdle /\ TariffsIdle /\ NegotiationIdle /\ MonthsIdle /\ CacheIdle /\ SessionsIdle
    /\ selected_group = "A" /\ start_date = 1 /\ end_date = 2 /\ plan_count = 1
    /\ report_generated = FALSE /\ submitted = FALSE /\ util_shown = {}

\* the run that follows a change of the inputs (the on_change callbacks have
\* stored the new values) or a press of the button
UtilizationRun(group, start, end, plans, pressed) ==
    LET run == utilization_run(start, end, plans, report_generated, pressed)
    IN  /\ selected_group' = group /\ start_date' = start /\ end_date' = end
        /\ plan_count' = plans
        /\ submitted' = pressed
        /\ report_generated' = run.report_generated
        /\ util_shown' = run.shown
        /\ UNCHANGED notutilvars

ChangeGroup ==
    \E g \in UtilGroups \ {selected_group} :
        UtilizationRun(g, start_date, end_date, plan_count, FALSE)

ChangeStartDate ==
    \E d \in (1..MaxUtilDay) \ {start_date} :
        UtilizationRun(selected_group, d, end_date, plan_count, FALSE)

ChangeEndDate ==
    \E d \in (1..MaxUtilDay) \ {end_date} :
        UtilizationRun(selected_group, start_date, d, plan_count, FALSE)

ChangePlanCount ==
    \E n \in (1..MaxPlanCount) \ {plan_count} :
        UtilizationRun(selected_group, start_date, end_date, n, FALSE)

\* the button "Generate Utilization Report"
GenerateReport == UtilizationRun(selected_group, start_date, end_date, plan_count, TRUE)

NextUtilization ==
    ChangeGroup \/ ChangeStartDate \/ ChangeEndDate \/ ChangePlanCount \/ GenerateReport

SpecUtilization == InitUtilization /\ [][NextUtilization]_vars

(***************************************************************************)
(* The monthly dashboard: main of dashboard.py up to the filter            *)
(***************************************************************************)
\* any loaded rows with a valid request date, any two dates in the inputs
InitMonths ==
    /\ ScriptIdle /\ ContactsIdle /\ TariffsIdle /\ NegotiationIdle /\ UtilizationIdle /\ CacheIdle /\ SessionsIdle
    /\ requests_df \in Tables({[requestdate |-> t] : t \in Timestamps}, MaxRequestRows)
    /\ start_month \in DateInputs /\ end_month \in DateInputs
    /\ df_filtered = <<>>
    /\ month_pc = "loaded"

\* df_filtered = filter_by_month_range(df, start_month, end_month); main returns
\* before it when nothing is loaded
FilterByMonthRange ==
    /\ month_pc = "loaded"
    /\ IF requests_df = <<>>
       THEN month_pc' = "no_data" /\ UNCHANGED df_filtered
       ELSE /\ df_filtered' = filter_by_month_range(requests_df, start_month, end_month)
            /\ month_pc' = (IF df_filtered' = <<>> THEN "no_rows" ELSE "filtered")
    /\ UNCHANGED <<notmonthvars, requests_df, start_month, end_month>>

NextMonths == FilterByMonthRange

SpecMonths == InitMonths /\ [][NextMonths]_vars

(***************************************************************************)
(* The data cache of MLR.py: load_data_from_sources is wrapped in          *)
(* st.cache_data(ttl=10800), so a script run gets the stored return value  *)
(* of an earlier run while the entry is younger than 3 hours, and runs the *)
(* body, storing what it returns, otherwise.  The cache is the server's:   *)
(* it outlives the runs.                                                   *)
(***************************************************************************)
\* a call of the wrapped function: the stored value on a hit; on a miss the
\* body runs and whatever it returns is stored, the None values of its two
\* failure returns included, since the body catches every exception itself
cached_call(cache, age, fault) ==
    IF cache # <<>> /\ age < CACHE_TTL_HOURS
    THEN [value |-> cache[1], hit |-> TRUE, cache |-> cache, age |-> age]
    ELSE [value |-> load_data_from_sources(fault).value, hit |-> FALSE,
          cache |-> <<load_data_from_sources(fault).value>>, age |-> 0]

\* the server has started: nothing cached, the databases in any condition
InitCache ==
    /\ ScriptIdle /\ ContactsIdle /\ TariffsIdle /\ NegotiationIdle /\ UtilizationIdle /\ SessionsIdle
    /\ MonthsIdle
    /\ db_fault \in LoadFaults
    /\ data_cache = <<>> /\ cache_age = 0 /\ db_queries = 0
    /\ run_value = "unset" /\ served_from_cache = FALSE
    /\ cache_pc = "idle"

\* a script run comes to its call of load_data_from_sources()
ScriptRun ==
    /\ cache_pc = "idle"
    /\ LET r == cached_call(data_cache, cache_age, db_fault)
       IN  /\ r.hit \/ db_queries < MaxQueries
           /\ run_value' = r.value
           /\ served_from_cache' = r.hit
           /\ data_cache' = r.cache
           /\ cache_age' = r.age
           /\ db_queries' = (IF r.hit THEN db_queries ELSE db_queries + 1)
    /\ UNCHANGED <<notcachevars, db_fault, cache_pc>>

\* the "Force Refresh Data" button: st.cache_data.clear(), then st.rerun(), and
\* the run that follows comes to its call with nothing cached
ForceRefreshData ==
    /\ cache_pc = "idle"
    /\ db_queries < MaxQueries
    /\ LET r == cached_call(<<>>, 0, db_fault)
       IN  /\ run_value' = r.value
           /\ served_from_cache' = r.hit
           /\ data_cache' = r.cache
           /\ cache_age' = r.age
           /\ db_queries' = db_queries + 1
    /\ UNCHANGED <<notcachevars, db_fault, cache_pc>>

\* an hour goes by
HourPasses ==
    /\ cache_pc = "idle"
    /\ data_cache # <<>>
    /\ cache_age < CACHE_TTL_HOURS
    /\ cache_age' = cache_age + 1
    /\ UNCHANGED <<notcachevars, db_fault, data_cache, db_queries, run_value,
                   served_from_cache, cache_pc>>

\* the databases become reachable, or stop being so
DatabasesChange ==
    /\ cache_pc = "idle"
    /\ db_fault' \in LoadFaults \ {db_fault}
    /\ UNCHANGED <<notcachevars, data_cache, cache_age, db_queries, run_value,
                   served_from_cache, cache_pc>>

NextCache == ScriptRun \/ ForceRefreshData \/ HourPasses \/ DatabasesChange

SpecCache == InitCache /\ [][NextCache]_vars

(***************************************************************************)
(* Several sessions of the dashboard on one server.  Every browser tab has *)
(* its own st.session_state, and a page reload starts a new session with   *)
(* an empty one; the data, and so the result tables, are the same for all. *)
(***************************************************************************)
\* the server is up, no session has run the alert check yet
InitSessions ==
    /\ ScriptIdle /\ ContactsIdle /\ TariffsIdle /\ NegotiationIdle /\ UtilizationIdle
    /\ MonthsIdle /\ CacheIdle
    /\ alert_table \in SessionTables({"A", "B"}, {Num(6000), Num(7000), Num(9000)})
    /\ session_sent = [s \in Sessions |-> {}]
    /\ mailbox = <<>>
    /\ reloads = 0
    /\ sess_pc = "serving"

\* a script run of session s comes to the alert block with the password entered:
\* check_and_send_alerts reads and writes the sent_notifications of s
SessionRun(s, server_ok) ==
    /\ sess_pc = "serving"
    /\ alert_table # <<>>
    /\ LET run == alert_loops(alert_table, <<>>, session_sent[s], <<>>, server_ok)
       IN  /\ session_sent' = [session_sent EXCEPT ![s] = run.sent]
           /\ mailbox' = mailbox \o run.alerts
    /\ UNCHANGED <<notsessvars, alert_table, reloads, sess_pc>>

\* the page of session s is reloaded: the new session has no sent_notifications
\* until load_sent_notifications makes it an empty dict
ReloadPage(s) ==
    /\ sess_pc = "serving"
    /\ reloads < MaxReloads
    /\ reloads' = reloads + 1
    /\ session_sent' = [session_sent EXCEPT ![s] = {}]
    /\ UNCHANGED <<notsessvars, alert_table, mailbox, sess_pc>>

NextSessions ==
    \/ \E s \in Sessions, server_ok \in BOOLEAN : SessionRun(s, server_ok)
    \/ \E s \in Sessions : ReloadPage(s)

SpecSessions == InitSessions /\ [][NextSessions]_vars

(***************************************************************************)
(* What the properties below measure the results against, computed from    *)
(* the loaded tables without the joins of calculate_mlr.                   *)
(***************************************************************************)
Abs(x) == IF x < 0 THEN -x ELSE x

\* m is an integer nearest to a / b (b > 0)
Nearest(m, a, b) == 2 * Abs(m * b - a) <= b

RECURSIVE SumOver(_, _)
SumOver(S, f) ==
    IF S = {} THEN 0
    ELSE LET x == CHOOSE y \in S : TRUE IN f[x] + SumOver(S \ {x}, f)

Rows(t) == {t[i] : i \in 1..Len(t)}

\* the current contract rows of the group named g whose window holds instant d
WindowsHolding(g, d) ==
    {i \in 1..Len(GROUP_CONTRACT) :
        /\ GROUP_CONTRACT[i].groupname = g
        /\ GROUP_CONTRACT[i].startdate <= d
        /\ d <= GROUP_CONTRACT[i].enddate}

Calculated == pc = "calculated" /\ ~mlr_error

\* the rows of a result table that carry a debit total above zero and a cost
Rated(t) == {r \in Rows(t) : IsNum(r.debit) /\ r.debit.v > 0 /\ IsNum(r.cost)}

GrantedValue(c) == IF IsNum(c) THEN c.v ELSE 0

ExpectedPaCost(g) ==
    SumOver({i \in 1..Len(PA) : PA[i].groupname = g},
            [i \in 1..Len(PA) |->
                GrantedValue(PA[i].granted)
                    * Cardinality(WindowsHolding(PA[i].groupname, PA[i].requestdate))])

PaGroupsInWindow ==
    {PA[i].groupname : i \in {j \in 1..Len(PA) :
                                WindowsHolding(PA[j].groupname, PA[j].requestdate) # {}}}

CostRows(t) == {i \in 1..Len(t) : IsNum(t[i].cost)}

C2_PaOnlyInWindow ==
    Calculated =>
        /\ \A i \in CostRows(pa_merged) :
              \E g \in PaGroupsInWindow :
                  /\ pa_merged[i].groupname \in {<<>>, <<g>>}
                  /\ pa_merged[i].cost.v = ExpectedPaCost(g)
        /\ Cardinality(CostRows(pa_merged)) = Cardinality(PaGroupsInWindow)

\* a row before the window, a row after a window and a row of a group without a
\* contract lie beside a row that counts
C2_Witness ==
    /\ Calculated
    /\ \E i, j \in 1..Len(PA) :
          /\ PA[i].groupname = "A" /\ WindowsHolding("A", PA[i].requestdate) = {}
          /\ IsNum(PA[i].granted)
          /\ PA[j].groupname = "A" /\ WindowsHolding("A", PA[j].requestdate) # {}
    /\ \E i \in 1..Len(PA) : PA[i].groupname = "B"
    /\ \A i \in 1..Len(GROUP_CONTRACT) : GROUP_CONTRACT[i].groupname = "A"
    /\ Cardinality(CostRows(pa_merged)) = 1

(***************************************************************************)
(* C3. A zero or missing debit total raises nothing and aborts nothing:    *)
(* both tables are returned, the row of such a group carries NaN or        *)
(* infinity (or null) as its ratio, and every other row carries a number.  *)
(***************************************************************************)
NoDebit(r) == fill_null(r.debit).v = 0

C3_ZeroDebitSentinel ==
    (pc = "calculated" /\ ~claims_cast_raises) =>
        /\ ~mlr_error
        /\ Len(pa_merged) = Len(calc_pa_merged)
        /\ Len(claims_merged) = Len(calc_claims_merged)
        /\ \A r \in Rows(pa_merged) \cup Rows(claims_merged) :
              IF NoDebit(r) THEN r.mlr.k \in {"nan", "inf", "null"} ELSE IsNum(r.mlr)

\* a group with a debit total of zero, its ratio NaN or infinite, beside a group
\* whose ratio is a number
C3_Witness ==
    /\ Calculated
    /\ \E r \in Rows(pa_merged) : r.debit = Num(0) /\ r.mlr \in {NaN, PosInf}
    /\ \E r \in Rows(pa_merged) : IsNum(r.mlr)

(***************************************************************************)
(* C4. TotalDebit of a group is made of its debit rows whose Description   *)
(* does not contain "tpa" in any letter case (a missing description does   *)
(* not contain it), each in-window row of these being counted; a row that  *)
(* mentions tpa adds nothing.                                              *)
(***************************************************************************)
MentionsTpa(desc) ==
    /\ desc # <<>>
    /\ \E p \in 1..(Len(desc[1]) - 2) :
          /\ desc[1][p] \in {"t", "T"}
          /\ desc[1][p + 1] \in {"p", "P"}
          /\ desc[1][p + 2] \in {"a", "A"}

ExpectedDebit(g) ==
    SumOver({i \in 1..Len(DEBIT) : DEBIT[i].CompanyName = g /\ ~MentionsTpa(DEBIT[i].Description)},
            [i \in 1..Len(DEBIT) |->
                DEBIT[i].Amount.v
                    * Cardinality(WindowsHolding(DEBIT[i].CompanyName, DEBIT[i].From))])

DebitGroupsInWindow ==
    {DEBIT[i].CompanyName : i \in {j \in 1..Len(DEBIT) :
        /\ ~MentionsTpa(DEBIT[j].Description)
        /\ WindowsHolding(DEBIT[j].CompanyName, DEBIT[j].From) # {}}}

DebitRows(t) == {i \in 1..Len(t) : IsNum(t[i].debit)}

DebitColumnIs(t) ==
    /\ \A i \in DebitRows(t) :
          \E g \in DebitGroupsInWindow :
              t[i].groupname = <<g>> /\ t[i].debit.v = ExpectedDebit(g)
    /\ Cardinality(DebitRows(t)) = Cardinality(DebitGroupsInWindow)

C4_TpaExcluded == Calculated => DebitColumnIs(pa_merged) /\ DebitColumnIs(claims_merged)

\* in one window: a row that mentions tpa, a row without description, a plain row
C4_Witness ==
    /\ Calculated
    /\ \E i, j, k \in 1..Len(DEBIT) :
          /\ MentionsTpa(DEBIT[i].Description)
          /\ DEBIT[j].Description = <<>>
          /\ DEBIT[k].Description = Plain
          /\ \A n \in {i, j, k} :
                DEBIT[n].CompanyName = "A" /\ WindowsHolding("A", DEBIT[n].From) # {}
    /\ \E r \in Rows(pa_merged) : r.groupname = <<"A">> /\ r.debit = Num(112)

(***************************************************************************)
(* C5. For every group with a debit total, the commission column of both   *)
(* result tables is TotalDebit * 0.10 rounded to 2 decimals, the two       *)
(* tables agree on it, and it is the commission inside both ratios.        *)
(***************************************************************************)
C5_Commission ==
    Calculated =>
        /\ \A r \in Rows(pa_merged) \cup Rows(claims_merged) :
              IsNum(r.debit) => IsNum(r.commission) /\ Nearest(r.commission.v, r.debit.v, 10)
        /\ \A r \in Rows(pa_merged), q \in Rows(claims_merged) :
              (r.groupname = q.groupname /\ IsNum(r.debit)) => r.commission = q.commission
        /\ \A r \in Rows(pa_merged) :
              (IsNum(r.debit) /\ r.debit.v > 0) =>
                  /\ IsNum(r.mlr)
                  /\ Nearest(r.mlr.v, (fill_null(r.pa40).v + r.commission.v) * 10000, r.debit.v)
        /\ \A r \in Rows(claims_merged) :
              (IsNum(r.debit) /\ r.debit.v > 0) =>
                  /\ IsNum(r.mlr)
                  /\ Nearest(r.mlr.v, (fill_null(r.cost).v + r.commission.v) * 10000, r.debit.v)

\* a debit total of 0.56 carries a commission of 0.06 in both tables
C5_Witness ==
    /\ Calculated
    /\ \E r \in Rows(pa_merged), q \in Rows(claims_merged) :
          /\ r.groupname = <<"A">> /\ q.groupname = <<"A">>
          /\ r.debit = Num(56) /\ r.commission = Num(6) /\ q.commission = Num(6)

(***************************************************************************)
(* C6. For every group, MLR(CLAIMS) (%) is (TotalCost(Claims) +            *)
(* commission) / TotalDebit * 100 rounded to 2 decimals, a missing claims  *)
(* cost counting as 0 and a debit total of 0 giving infinity or NaN: no    *)
(* markup on the cost.                                                     *)
(***************************************************************************)
C6_MlrClaimsFormula ==
    Calculated =>
        \A r \in Rows(claims_merged) :
            IF IsNum(r.debit) /\ r.debit.v > 0
            THEN /\ IsNum(r.mlr) /\ IsNum(r.commission)
                 /\ Nearest(r.mlr.v, (fill_null(r.cost).v + r.commission.v) * 10000, r.debit.v)
            ELSE \* the same quotient over a divisor of 0, in float arithmetic
                 r.mlr = IF fill_null(r.cost).v + fill_null(r.commission).v > 0
                         THEN PosInf ELSE NaN

\* claims of 10.00 against a debit of 50.00: (1000 + 500) / 5000 = 30.00 %
C6_Witness ==
    /\ Calculated
    /\ \E r \in Rows(claims_merged) :
          r.debit = Num(5000) /\ r.cost = Num(1000) /\ r.commission = Num(500) /\ r.mlr = Num(3000)

(***************************************************************************)
(* C7. TotalDebit of a group is the sum of Amount over exactly the debit   *)
(* rows of the group that do not mention tpa and whose From date lies in   *)
(* the contract window of the group, every such row taken once.            *)
(***************************************************************************)
DebitOnce(g) ==
    SumOver({i \in 1..Len(DEBIT) :
                /\ DEBIT[i].CompanyName = g
                /\ ~MentionsTpa(DEBIT[i].Description)
                /\ WindowsHolding(g, DEBIT[i].From) # {}},
            [i \in 1..Len(DEBIT) |-> DEBIT[i].Amount.v])

C7_Original ==
    Calculated =>
        \A r \in Rows(pa_merged) \cup Rows(claims_merged) :
            IsNum(r.debit) =>
                \E g \in DebitGroupsInWindow :
                    r.groupname = <<g>> /\ r.debit.v = DebitOnce(g)

(***************************************************************************)
(* C8. TotalCost(Claims) of a group is the sum of approvedamount over      *)
(* exactly the claims whose nhisgroupid maps through GROUPS to the group   *)
(* and whose encounterdatefrom lies in the contract window of the group,   *)
(* every such claim taken once; other claims add to no group.              *)
(***************************************************************************)
GroupIdsOf(g) ==
    {cast_utf8_int(GROUPS[j].groupid) : j \in {k \in 1..Len(GROUPS) : GROUPS[k].groupname = g}}

ClaimsOnce(g) ==
    SumOver({i \in 1..Len(CLAIMS) :
                /\ CLAIMS[i].nhisgroupid \in GroupIdsOf(g)
                /\ WindowsHolding(g, CLAIMS[i].encounterdatefrom) # {}},
            [i \in 1..Len(CLAIMS) |-> GrantedValue(CLAIMS[i].approvedamount)])

ClaimGroupsInWindow ==
    {g \in {GROUPS[j].groupname : j \in 1..Len(GROUPS)} :
        \E i \in 1..Len(CLAIMS) :
            /\ CLAIMS[i].nhisgroupid \in GroupIdsOf(g)
            /\ WindowsHolding(g, CLAIMS[i].encounterdatefrom) # {}}

C8_Original ==
    Calculated =>
        /\ \A i \in CostRows(claims_merged) :
              \E g \in ClaimGroupsInWindow :
                  /\ claims_merged[i].groupname \in {<<>>, <<g>>}
                  /\ claims_merged[i].cost.v = ClaimsOnce(g)
        /\ Cardinality(CostRows(claims_merged)) = Cardinality(ClaimGroupsInWindow)

(***************************************************************************)
(* C9. Each result table holds exactly one row carrying the name of the    *)
(* group for every group of the debit aggregate or of the cost aggregate   *)
(* of the table: a group missing from one of them is still there by name.  *)
(***************************************************************************)
NamedOnce(t, g) == Cardinality({i \in 1..Len(t) : t[i].groupname = <<g>>}) = 1

C9_Original ==
    Calculated =>
        /\ \A g \in DebitGroupsInWindow \cup PaGroupsInWindow : NamedOnce(pa_merged, g)
        /\ \A g \in DebitGroupsInWindow \cup ClaimGroupsInWindow : NamedOnce(claims_merged, g)

(***************************************************************************)
(* C10. When a step of calculate_mlr raises, the run goes on with two      *)
(* empty tables and does what it does without data: check_and_send_alerts  *)
(* is not called, no e-mail is attempted, nothing is recorded, and neither *)
(* MLR table (nor a warning in its place) is put on the page, whatever the *)
(* sidebar says. When a step of calculate_retail_mlr raises, the run goes  *)
(* on with two empty retail tables and puts no retail table on the page.   *)
(***************************************************************************)
MlrOutputs == {"alerts_success", "no_new_alerts", "pa_table", "pa_warning",
               "claims_table", "claims_warning"}

C10_ExceptionAsNoData ==
    /\ (pc \notin {"db", "loaded"} /\ \E i \in 1..Len(CLAIMS) : ~IsNum(CLAIMS[i].approvedamount)
                                                               /\ ~IsNull(CLAIMS[i].approvedamount))
          => mlr_error
    /\ mlr_error =>
          /\ pa_merged = <<>> /\ claims_merged = <<>>
          /\ ~alert_checked /\ attempts = <<>> /\ alerts_sent = <<>> /\ sent_notifications = {}
          /\ shown \cap MlrOutputs \subseteq {"no_new_alerts"}
          /\ pc \in {"alerted", "rendered", "done"} =>
                ("no_new_alerts" \in shown <=> (email_alerts_enabled /\ email_password # ""))
    /\ (pc = "done" /\ \E i \in 1..Len(PA) : PA[i].granted = Text) => retail_error
    /\ retail_error =>
          /\ result_df = <<>> /\ merged_plan_df = <<>>
          /\ shown \cap {"retail_table", "plan_table"} = {}
          /\ {"retail_info", "plan_info"} \subseteq shown

\* a whole run with alerts enabled, a password and a working mail server, over a
\* database that would have given an MLR row, in which both calculations raised
C10_Witness ==
    /\ pc = "done"
    /\ mlr_error /\ retail_error
    /\ email_alerts_enabled /\ email_password # "" /\ smtp_ok
    /\ Len(calc_pa_merged) > 0
    /\ Len(claims_merged) = 0 /\ Len(pa_merged) = 0
    /\ shown = {"no_new_alerts", "retail_info", "plan_info"}

(***************************************************************************)
(* The data load and its failures                                          *)
(***************************************************************************)

LoadFailed == load_fault # "none" /\ pc # "db"

\* C11: whenever load_data_from_sources fails (no connection strings, a
\* connection error, a query exception) the run does not crash, computes
\* nothing and shows the "Failed to load required data" banner.
C11_Original ==
    LoadFailed =>
        /\ pc \in {"loaded", "done"}
        /\ pc = "done" => "load_failed" \in shown
        /\ pa_merged = <<>> /\ claims_merged = <<>> /\ ~alert_checked
        /\ shown \subseteq {"load_failed"}

\* C18: every database connection that load_data_from_sources opened is
\* closed when it has returned, on success and on every path where a query
\* raises.
C18_Original == pc # "db" => open_conns = {}

(***************************************************************************)
(* Contact completeness                                                    *)
(***************************************************************************)
RECURSIVE CountDigits(_)
CountDigits(s) ==
    IF s = <<>> THEN 0
    ELSE (IF isdigit(Head(s)) THEN 1 ELSE 0) + CountDigits(Tail(s))

\* the first n digits of s, the other characters left out
RECURSIVE FirstDigits(_, _)
FirstDigits(s, n) ==
    IF n = 0 \/ s = <<>> THEN <<>>
    ELSE IF isdigit(Head(s)) THEN <<Head(s)>> \o FirstDigits(Tail(s), n - 1)
    ELSE FirstDigits(Tail(s), n)

GoodPhone(f) ==
    /\ f # <<>>
    /\ CountDigits(f[1]) = 11
    /\ FirstDigits(f[1], 6) # <<"0", "8", "0", "0", "0", "0">>

PhoneAnalysed == contact_pc \in {"email", "done"}

Example_Placeholder ==
    <<<<<<"0", "8", "0", "0", "0", "0", "1", "2", "3", "4", "5">>>>, <<<<>>>>, <<<<>>>>, <<<<>>>>>>

Example_Mobile ==
    <<<<<<"0", "8", "0", "1", "2", "3", "4", "5", "6", "7", "8">>>>, <<>>, <<>>, <<>>>>

\* C12: a member is phone-complete exactly when one of phone1..phone4, its
\* non-digit characters removed, has exactly 11 digits and does not start
\* with "080000"; ["08000012345", "", "", ""] is incomplete, ["08012345678"]
\* is complete, four empty fields are incomplete.
C12_PhoneComplete ==
    PhoneAnalysed =>
        /\ phone_result[1].complete = (\E i \in 1..Len(phones) : GoodPhone(phones[i]))
        /\ phones = Example_Placeholder => ~phone_result[1].complete
        /\ phones = Example_Mobile => phone_result[1].complete
        /\ (\A i \in 1..Len(phones) : phones[i] \in {<<>>, <<<<>>>>}) => ~phone_result[1].complete

\* the placeholder number of the example has been judged
C12_Witness ==
    /\ PhoneAnalysed
    /\ phones = Example_Placeholder
    /\ phone_result[1].complete = FALSE

EmailAnalysed == contact_pc = "done"

Placeholders == {NullWord, DefaultMail, TestMail}

\* the field read as it stands
GoodEmailRaw(f) ==
    /\ f # <<>>
    /\ \E i \in 1..Len(f[1]) : f[1][i] = "@"
    /\ to_lowercase(f[1]) \notin Placeholders

\* the field read without the whitespace around it
GoodEmail(f) == f # <<>> /\ GoodEmailRaw(<<strip(f[1])>>)

OnlyEmail(f) == <<f, <<>>, <<>>, <<>>>>

\* C13: a member is e-mail-complete exactly when one of email1..email4, the
\* whitespace around it removed, contains "@" and is not, in any letter case,
\* one of null, default@gmail.com, test@gmail.com; "test@gmail.com" alone is
\* incomplete, "a@b.com" alone is complete, one valid address among
\* placeholders suffices.
C13_EmailComplete ==
    EmailAnalysed =>
        /\ email_result[1].complete = (\E i \in 1..Len(emails) : GoodEmail(emails[i]))
        /\ emails = OnlyEmail(<<TestMail>>) => ~email_result[1].complete
        /\ emails = OnlyEmail(<<<<"a", "@", "b", ".", "c", "o", "m">>>>)
              => email_result[1].complete

\* C13 as stated: the fields are read as they stand
C13_Original ==
    EmailAnalysed =>
        email_result[1].complete = (\E i \in 1..Len(emails) : GoodEmailRaw(emails[i]))

\* one valid address among placeholders in other letter cases and with
\* whitespace around them
C13_Witness ==
    /\ EmailAnalysed
    /\ email_result[1].complete
    /\ Cardinality({i \in 1..Len(emails) : GoodEmail(emails[i])}) = 1
    /\ \E i \in 1..Len(emails) : emails[i] = <<<<"T", "E", "S", "T">> \o AtGmail>>
    /\ \E i \in 1..Len(emails) : emails[i] = <<<<" ">> \o TestMail \o <<" ">>>>
    /\ \E i \in 1..Len(emails) : emails[i] = <<DefaultMail>>

(***************************************************************************)
(* The retail MLR                                                          *)
(***************************************************************************)
RetailDone == pc = "done" /\ scenario \in RetailScenarios /\ ~retail_error

IsRetailGroupId(gid) ==
    \E i \in 1..Len(GROUPS) :
        GROUPS[i].groupid = gid /\ name_to_lowercase(GROUPS[i].groupname) = "family scheme"

HasPlanName(pid, n) ==
    \E i \in 1..Len(PLAN) : PLAN[i].planid = pid /\ PLAN[i].planname = n

\* the premium of plan n: over its group-plan rows of the retail group
ExpectedPremium(n) ==
    LET rows == {i \in 1..Len(G_PLAN) :
                    IsRetailGroupId(G_PLAN[i].groupid) /\ HasPlanName(G_PLAN[i].planid, n)}
    IN  SumOver(rows, [i \in rows |->
                          G_PLAN[i].individualprice.v * G_PLAN[i].countofindividual
                              + G_PLAN[i].familyprice.v * G_PLAN[i].countoffamily])

\* whether the member with code iid is currently on plan n
OnPlan(iid, n) ==
    \E e \in 1..Len(ACTIVE_ENROLLEE), m \in 1..Len(M_PLAN) :
        /\ ACTIVE_ENROLLEE[e].legacycode = iid
        /\ M_PLAN[m].memberid = ACTIVE_ENROLLEE[e].memberid
        /\ M_PLAN[m].iscurrent
        /\ HasPlanName(M_PLAN[m].planid, n)

\* whether instant d lies in a coverage window of the member with code iid
Covered(iid, d) ==
    \E e \in 1..Len(ACTIVE_ENROLLEE) :
        /\ ACTIVE_ENROLLEE[e].legacycode = iid
        /\ ACTIVE_ENROLLEE[e].effectivedate <= d
        /\ d <= ACTIVE_ENROLLEE[e].terminationdate

\* the PA rows that count for plan n
RetailPaRows(n) ==
    {i \in 1..Len(PA) :
        /\ name_to_lowercase(PA[i].groupname) = "family scheme"
        /\ OnPlan(PA[i].IID, n)
        /\ Covered(PA[i].IID, PA[i].requestdate)}

ExpectedRetailCost(n) ==
    SumOver(RetailPaRows(n), [i \in RetailPaRows(n) |-> PA[i].granted.v])

\* C14: in the retail MLR the premium of each plan is the sum over its
\* group-plan rows of individualprice*countofindividual +
\* familyprice*countoffamily, and its PA cost is the sum of granted over the
\* retail group's PA rows of the plan's members whose requestdate lies in the
\* member's coverage window; other rows contribute nothing.
C14_Original ==
    RetailDone =>
        \A i \in 1..Len(merged_plan_df) :
            LET r == merged_plan_df[i]
            IN  r.planname # <<>> =>
                    /\ r.total_premium = ExpectedPremium(r.planname[1])
                    /\ fill_null(r.total_cost) = Num(ExpectedRetailCost(r.planname[1]))

\* every member has one current coverage row and one current member_plan row
OneRowPerMember ==
    /\ \A i, j \in 1..Len(ACTIVE_ENROLLEE) :
          ACTIVE_ENROLLEE[i].legacycode = ACTIVE_ENROLLEE[j].legacycode => i = j
    /\ \A i, j \in 1..Len(M_PLAN) :
          (M_PLAN[i].memberid = M_PLAN[j].memberid /\ M_PLAN[i].iscurrent /\ M_PLAN[j].iscurrent)
              => i = j

\* the values of C14 on the databases that hold one current row per member
RetailValuesWhenOneRowPerMember == OneRowPerMember => C14_Original

(***************************************************************************)
(* The tariff check                                                        *)
(***************************************************************************)
\* a code in lower case without its blanks
RECURSIVE Squash(_)
Squash(s) ==
    IF s = <<>> THEN <<>>
    ELSE IF Head(s) = " " THEN Squash(Tail(s))
    ELSE <<LowerOf(Head(s))>> \o Squash(Tail(s))

TariffsDone == tariff_pc \in {"saved", "failed"}

\* the tariff rows of the code that exceed the price
Exceeding(code, price) ==
    {i \in 1..Len(tariff_df) :
        /\ Squash(tariff_df[i].procedurecode) = Squash(code)
        /\ IsNum(tariff_df[i].tariffamount)
        /\ tariff_df[i].tariffamount.v > price}

SummaryOf(code) ==
    {i \in 1..Len(summary_df) : Squash(summary_df[i].procedurecode) = Squash(code)}

SheetsOf(code) == {i \in 1..Len(workbook) : Squash(workbook[i].title) = Squash(code)}

\* the rows of a sheet are the tariff rows of the set, each once
SameRows(rows, set) ==
    /\ Len(rows) = Cardinality(set)
    /\ \A t \in set :
          Cardinality({i \in 1..Len(rows) :
                          /\ rows[i].procedurecode = tariff_df[t].procedurecode
                          /\ rows[i].tariffamount = tariff_df[t].tariffamount
                          /\ rows[i].tariffname = tariff_df[t].tariffname})
            = Cardinality({u \in set :
                              /\ tariff_df[u].procedurecode = tariff_df[t].procedurecode
                              /\ tariff_df[u].tariffamount = tariff_df[t].tariffamount
                              /\ tariff_df[u].tariffname = tariff_df[t].tariffname})

\* the workbook reports the code against the price
Reported(code, price) ==
    /\ tariff_pc = "saved"
    /\ Cardinality(SummaryOf(code)) = 1
    /\ \A i \in SummaryOf(code) :
          summary_df[i].count_exceeding = Cardinality(Exceeding(code, price))
    /\ Cardinality(SheetsOf(code)) = (IF Exceeding(code, price) # {} THEN 1 ELSE 0)
    /\ \A i \in SheetsOf(code) : SameRows(workbook[i].rows, Exceeding(code, price))

\* the first reference row with the code of reference row r, up to
\* normalization
FirstOf(r) ==
    CHOOSE i \in 1..r :
        /\ Squash(first_df[i].procedurecode) = Squash(first_df[r].procedurecode)
        /\ \A j \in 1..(i - 1) :
              Squash(first_df[j].procedurecode) # Squash(first_df[r].procedurecode)

\* C15: for every normalized reference code, judged by the price of its first
\* reference row when that price is numeric, the sheet holds exactly the
\* tariff rows of the same normalized code whose tariffamount is strictly
\* greater, the summary counts them (0 when there are none), and the sheet
\* exists iff the count is positive; a code whose first row has no numeric
\* price is not reported.
C15_FirstPriceRules ==
    TariffsDone =>
        \A r \in 1..Len(first_df) :
            LET f == first_df[FirstOf(r)]
            IN  IF IsNum(f.price) THEN Reported(f.procedurecode, f.price.v)
                ELSE SummaryOf(f.procedurecode) = {} /\ SheetsOf(f.procedurecode) = {}

\* C15 as stated: every reference row with a numeric price is reported
\* against its own price
C15_Original ==
    TariffsDone =>
        \A r \in 1..Len(first_df) :
            IsNum(first_df[r].price)
                => Reported(first_df[r].procedurecode, first_df[r].price.v)

\* two spellings of one code in the reference list with two prices, and a
\* sheet of two tariff rows, one of them priced between the two
C15_Witness ==
    /\ tariff_pc = "saved"
    /\ Len(first_df) = 2
    /\ first_df[1].procedurecode # first_df[2].procedurecode
    /\ Squash(first_df[1].procedurecode) = Squash(first_df[2].procedurecode)
    /\ first_df[1].price = Num(50) /\ first_df[2].price = Num(100)
    /\ Len(workbook) = 1 /\ Len(workbook[1].rows) = 2
    /\ workbook[1].rows[2].tariffamount = Num(70)
    /\ summary_df[1].count_exceeding = 2

(***************************************************************************)
(* The alerts of a run and of a session                                    *)
(***************************************************************************)
AlertTypes == {"PA", "CLAIMS"}

TableOf(ty) == IF ty = "PA" THEN pa_merged ELSE claims_merged

AtLeast(mlr, t) == mlr = PosInf \/ (IsNum(mlr) /\ ~(mlr.v < t))

Recorded(a) == notification_key(a[1], a[2], a[3]) \in sent_notifications

\* how often the sequence holds the alert
Times(seq, a) == Cardinality({n \in 1..Len(seq) : seq[n] = a})

\* the alerts of the sequence for the group and the type
TimesFor(seq, g, ty) == Cardinality({n \in 1..Len(seq) : seq[n][1] = g /\ seq[n][2] = ty})

\* a step in which check_and_send_alerts ran
AlertRun == pc = "calculated" /\ pc' = "alerted" /\ alert_checked'

C16_Step ==
    AlertRun =>
        /\ \A ty \in AlertTypes : \A i \in 1..Len(TableOf(ty)) :
              LET row == TableOf(ty)[i]
              IN  /\ \A n \in 1..Len(THRESHOLDS) :
                        LET a == <<row.groupname, ty, THRESHOLDS[n]>>
                        IN  Times(attempts', a) =
                                (IF AtLeast(row.mlr, THRESHOLDS[n]) /\ ~Recorded(a) THEN 1 ELSE 0)
                  /\ (AtLeast(row.mlr, 8500)
                         /\ \A n \in 1..Len(THRESHOLDS) :
                                ~Recorded(<<row.groupname, ty, THRESHOLDS[n]>>))
                        => TimesFor(attempts', row.groupname, ty) = 3
                  /\ (IsNum(row.mlr) /\ row.mlr.v < 6500)
                        => TimesFor(attempts', row.groupname, ty) = 0
        /\ \A n \in 1..Len(attempts') :
              \E i \in 1..Len(TableOf(attempts'[n][2])) :
                  TableOf(attempts'[n][2])[i].groupname = attempts'[n][1]

\* C16: in one run of check_and_send_alerts, for every row of either table
\* and every threshold of 65, 75, 85, an e-mail is attempted (once) iff the
\* row's MLR is >= the threshold and the notification of (group, type,
\* threshold) is not yet recorded: three e-mails for a group first seen at
\* 85% or more, none for a group below 65%.
C16_AttemptIffBreach == [][C16_Step]_vars

\* a run that finds group A at 90% with the 65% notification on record and
\* attempts the other two
C16_Witness ==
    /\ pc = "alerted" /\ alert_checked
    /\ Len(pa_merged) = 1 /\ pa_merged[1] = AlertRow("A", Num(9000))
    /\ attempts = <<<<<<"A">>, "PA", 7500>>, <<<<"A">>, "PA", 8500>>>>
    /\ notification_key(<<"A">>, "PA", 6500) \in sent_notifications

AlertTriples ==
    {<<<<g>>, ty, THRESHOLDS[n]>> : g \in {"A", "A_PA"}, ty \in AlertTypes,
                                    n \in 1..Len(THRESHOLDS)}

Analyzed == neg_pc \in {"analyzed", "failed"}

\* x >= 0 on floats
NonNegative(x) == float_le(Num(0), x)

\* exactly one row of the analysis for each entry of the tariff
OneRowPerEntry ==
    /\ Len(analysis_df) = Len(hospital_tariff)
    /\ \A i \in 1..Len(hospital_tariff) :
           Cardinality({j \in 1..Len(analysis_df) :
               /\ analysis_df[j].procedure_code = hospital_tariff[i].procedure_code
               /\ analysis_df[j].hospital_price = hospital_tariff[i].price}) = 1

\* what the analysis gives with the AI box unchecked
NoAiAnalysis ==
    /\ neg_pc = "analyzed"
    /\ ai_calls = 0
    /\ OneRowPerEntry
    /\ \A j \in 1..Len(analysis_df) :
           analysis_df[j].ai_confidence = 0 /\ NonNegative(analysis_df[j].annual_impact)

\* C19: with AI disabled, analyze_hospital_tariff completes without error and
\* without a request to the API, and returns exactly one row per entry of the
\* tariff, each with ai_confidence 0 and an annual_impact that is not negative.
C19_Original == (Analyzed /\ ~use_ai) => NoAiAnalysis

\* the same for the tariffs whose prices are all finite
NoAiAnalysisWhenPricesFinite ==
    (Analyzed /\ ~use_ai /\ \A i \in 1..Len(hospital_tariff) : IsNum(hospital_tariff[i].price))
        => NoAiAnalysis


\* the place of a priority in the order of urgency
Urgency(priority) ==
    CASE priority = CRITICAL -> 1 [] priority = HIGH -> 2
      [] priority = MEDIUM -> 3 [] priority = LOW -> 4

\* the place of a priority in the descending order of the priority names
NameOrder(priority) ==
    CASE priority = MEDIUM -> 1 [] priority = LOW -> 2
      [] priority = HIGH -> 3 [] priority = CRITICAL -> 4

\* rows of equal priority are in descending order of annual_impact, NaN last
ImpactDescending ==
    \A i, j \in 1..Len(analysis_df) :
        (i < j /\ analysis_df[i].priority = analysis_df[j].priority)
            => \/ analysis_df[j].annual_impact.k = "nan"
               \/ float_le(analysis_df[j].annual_impact, analysis_df[i].annual_impact)

\* C20: the rows returned by analyze_hospital_tariff are in order of urgency,
\* every CRITICAL row before every HIGH row, before every MEDIUM row, before
\* every LOW row, and rows of equal priority by annual_impact descending.
C20_Original ==
    neg_pc = "analyzed" =>
        /\ \A i, j \in 1..Len(analysis_df) :
               i < j => Urgency(analysis_df[i].priority) <= Urgency(analysis_df[j].priority)
        /\ ImpactDescending

\* the order the rows do come in: MEDIUM, LOW, HIGH, CRITICAL
OrderedByPriorityName ==
    neg_pc = "analyzed" =>
        /\ \A i, j \in 1..Len(analysis_df) :
               i < j => NameOrder(analysis_df[i].priority) <= NameOrder(analysis_df[j].priority)
        /\ ImpactDescending


\* the alerts the mail server took since the history was last empty
Delivered == {outbox[n] : n \in 1..Len(outbox)}

C21_Step ==
    AlertRun =>
        /\ \A n \in 1..Len(alerts_sent') :
              smtp_ok /\ Times(attempts', alerts_sent'[n]) = 1
        /\ sent_notifications' = sent_notifications
              \cup {notification_key(alerts_sent'[n][1], alerts_sent'[n][2], alerts_sent'[n][3]) :
                       n \in 1..Len(alerts_sent')}
        /\ ~smtp_ok => (sent_notifications' = sent_notifications /\ alerts_sent' = <<>>)
        /\ \A ty \in AlertTypes : \A i \in 1..Len(TableOf(ty)) : \A n \in 1..Len(THRESHOLDS) :
              LET a == <<TableOf(ty)[i].groupname, ty, THRESHOLDS[n]>>
              IN  (AtLeast(TableOf(ty)[i].mlr, THRESHOLDS[n]) /\ a \notin Delivered)
                      => Times(attempts', a) = 1

\* C21: a (group, type, threshold) notification is recorded, and listed in
\* alerts_sent, only when send_mlr_alert_email returned True for it; when the
\* sending fails nothing is recorded and the run goes on, and an alert that no
\* run has delivered is attempted in every run that finds its threshold
\* breached.
C21_RecordedOnlyWhenSent == [][C21_Step]_vars

\* a run in which group A at 90% was tried three times and the server refused
C21_Witness ==
    /\ pc = "alerted" /\ alert_checked /\ ~smtp_ok
    /\ Len(pa_merged) = 1 /\ pa_merged[1] = AlertRow("A", Num(9000))
    /\ Len(attempts) >= 3 /\ alerts_sent = <<>>
    /\ sent_notifications = {} /\ outbox = <<>>


\* p <= x for a price p and a finite price x
AtMost(p, x) == IsNum(p) /\ p.v <= x.v

\* the strategy in force: the one supplied, or the first level's
StrategyInForce ==
    IF negotiation_strategy = <<>>
    THEN [primary_target |-> "price_level_1", fallback_target |-> "nhia_price"]
    ELSE negotiation_strategy[1]

\* the price a target names in a standard, nhia_price being price_level_1 when it is 0
TargetPrice(standard, target) ==
    IF target = "nhia_price" /\ standard.nhia_price = Num(0) THEN standard.price_level_1
    ELSE standard[target]

\* the rows of the analysis whose procedure is in the standards
InStandard == {j \in 1..Len(analysis_df) : analysis_df[j].procedure_code \in DOMAIN standards}

\* C22: _determine_negotiation_strategy classifies a hospital price p against
\* the primary target P, the fallback target F and the level-4 price L4 by the
\* first rule that matches: p <= P gives EXCELLENT with target 0.95 p when the
\* primary target is price_level_1, and GOOD with target p otherwise; else
\* p <= F gives ACCEPTABLE, else p <= L4 gives NEGOTIATE, else REJECT, each with
\* target P. With no strategy supplied P is price_level_1 and F is nhia_price.
C22_FirstMatchingRule ==
    neg_pc = "analyzed" =>
        \A j \in InStandard :
            LET row == analysis_df[j]
                standard == standards[row.procedure_code]
                p == row.hospital_price
                P == TargetPrice(standard, StrategyInForce.primary_target)
                F == TargetPrice(standard, StrategyInForce.fallback_target)
                L4 == standard.price_level_4
            IN  IF AtMost(p, P)
                THEN IF StrategyInForce.primary_target = "price_level_1"
                     THEN /\ row.current_level = "EXCELLENT"
                          /\ IsNum(row.target_price)
                          /\ 100 * row.target_price.v = 95 * p.v
                     ELSE row.current_level = "GOOD" /\ row.target_price = p
                ELSE /\ row.target_price = P
                     /\ row.current_level =
                            (IF AtMost(p, F) THEN "ACCEPTABLE"
                             ELSE IF AtMost(p, L4) THEN "NEGOTIATE"
                             ELSE "REJECT")

\* with no strategy supplied: a price at level 1 is EXCELLENT, one between
\* level 1 and the NHIA price is ACCEPTABLE
C22_Witness ==
    /\ neg_pc = "analyzed" /\ negotiation_strategy = <<>>
    /\ Len(analysis_df) = 2
    /\ \E j \in InStandard :
          /\ analysis_df[j].hospital_price = Num(7500)
          /\ analysis_df[j].current_level = "EXCELLENT"
          /\ analysis_df[j].target_price = Num(7125)
    /\ \E j \in InStandard :
          /\ analysis_df[j].hospital_price = Num(7800)
          /\ analysis_df[j].current_level = "ACCEPTABLE"
          /\ analysis_df[j].target_price = Num(7500)


\* x > t for an impact x and a number t of hundredths
Over(x, t) == x = PosInf \/ (IsNum(x) /\ x.v > t)

\* C23: the priority of a row is CRITICAL iff its level is REJECT or
\* UNACCEPTABLE or its annual_impact is over 50000; otherwise HIGH iff the
\* level is NEGOTIATE or MAXIMUM or the impact is over 10000 or the frequency
\* over 100; otherwise MEDIUM iff the level is ACCEPTABLE or the impact is over
\* 1000 or the frequency over 50; otherwise LOW. Every REJECT row is CRITICAL,
\* and a procedure absent from the standards is LOW with annual_impact 0 and no
\* target price.
C23_PriorityRules ==
    neg_pc = "analyzed" =>
        \A j \in 1..Len(analysis_df) :
            LET row == analysis_df[j]
                critical == row.current_level \in {"REJECT", "UNACCEPTABLE"}
                               \/ Over(row.annual_impact, 5000000)
                high == row.current_level \in {"NEGOTIATE", "MAXIMUM"}
                           \/ Over(row.annual_impact, 1000000) \/ row.frequency > 100
                medium == row.current_level = "ACCEPTABLE"
                             \/ Over(row.annual_impact, 100000) \/ row.frequency > 50
            IN  IF j \in InStandard
                THEN /\ (row.priority = CRITICAL) = critical
                     /\ (row.priority = HIGH) = (~critical /\ high)
                     /\ (row.priority = MEDIUM) = (~critical /\ ~high /\ medium)
                     /\ (row.priority = LOW) = (~critical /\ ~high /\ ~medium)
                     /\ row.current_level = "REJECT" => row.priority = CRITICAL
                ELSE /\ row.priority = LOW
                     /\ row.annual_impact = Num(0)
                     /\ row.target_price = Null

\* a row that is CRITICAL by its impact alone beside one of a procedure that is
\* not in the standards
C23_Witness ==
    /\ neg_pc = "analyzed" /\ Len(analysis_df) = 2
    /\ \E j \in InStandard :
          /\ analysis_df[j].current_level = "NEGOTIATE"
          /\ analysis_df[j].annual_impact = Num(7000000)
          /\ analysis_df[j].priority = CRITICAL
    /\ \E j \in 1..Len(analysis_df) :
          j \notin InStandard /\ analysis_df[j].priority = LOW


(***************************************************************************)
(* The utilization report                                                  *)
(***************************************************************************)
\* C24: the utilization report is rendered in a run only if the start date
\* and the end date held in the session state satisfy start <= end; a press
\* of the button with start > end shows the date error and no report in that
\* run, also after an earlier valid submission.
C24_Original ==
    /\ "report" \in util_shown => start_date <= end_date
    /\ (submitted /\ start_date > end_date)
           => ("date_error" \in util_shown /\ "report" \notin util_shown)

\* what the section does: the report is shown from the first valid submission
\* on, whatever the dates become
ReportOnceGenerated ==
    /\ "report" \in util_shown <=> report_generated
    /\ "date_error" \in util_shown <=> (submitted /\ start_date > end_date)


(***************************************************************************)
(* The month filter                                                        *)
(***************************************************************************)
\* the filter has run
Filtered == month_pc \in {"no_rows", "filtered"}

InMonths(r) ==
    start_month.month <= r.requestdate.month /\ r.requestdate.month <= end_month.month

\* C25: filter_by_month_range returns exactly the rows whose requestdate falls
\* in a calendar month from the start month to the end month inclusive, from
\* the first instant of the first day of the start month through the last
\* instant of the last day of the end month, whatever the day in the two
\* arguments.
C25_Original == Filtered => df_filtered = SelectSeq(requests_df, InMonths)

UpToLastMidnight(r) ==
    /\ InMonths(r)
    /\ r.requestdate.month = end_month.month =>
           (r.requestdate.day < DaysInMonth \/ r.requestdate.hour = 0)

\* what is returned: the rows of those months up to 00:00 of the last day of the
\* end month
FilteredUpToLastMidnight == Filtered => df_filtered = SelectSeq(requests_df, UpToLastMidnight)


\* the target of the row is within its price, its savings are the difference
\* and its impact is the savings times the frequency, neither below 0
SavingsOfRow(row) ==
    /\ float_le(row.target_price, row.hospital_price)
    /\ row.potential_savings = float_sub(row.hospital_price, row.target_price)
    /\ NonNegative(row.potential_savings)
    /\ IsNum(row.potential_savings) =>
           row.annual_impact = Num(row.potential_savings.v * row.frequency)
    /\ NonNegative(row.annual_impact)

\* C26: for every procedure found in the standards and every negotiation
\* strategy, the target price of the row is at most the hospital price, so
\* potential_savings is hospital_price - target_price and is >= 0, and
\* annual_impact = potential_savings * frequency is >= 0.
C26_Original == neg_pc = "analyzed" => \A j \in InStandard : SavingsOfRow(analysis_df[j])

\* the same for the rows whose hospital price is finite
SavingsWhenPriceFinite ==
    neg_pc = "analyzed" =>
        \A j \in InStandard :
            IsNum(analysis_df[j].hospital_price) => SavingsOfRow(analysis_df[j])


(***************************************************************************)
(* C27. In calculate_mlr every PA row, claim row and debit row adds to the *)
(* total of its group at most once, whatever GROUP_CONTRACT and GROUPS     *)
(* hold: each PA cost, claims cost and debit total of the result tables is *)
(* the sum over the in-window rows of the group, every row taken once,     *)
(* also when the group has several contract rows that hold the row.        *)
(***************************************************************************)
PaOnce(g) ==
    SumOver({i \in 1..Len(PA) :
                /\ PA[i].groupname = g
                /\ WindowsHolding(g, PA[i].requestdate) # {}},
            [i \in 1..Len(PA) |-> GrantedValue(PA[i].granted)])

C27_Original ==
    Calculated =>
        /\ \A i \in CostRows(pa_merged) :
              \E g \in PaGroupsInWindow :
                  /\ pa_merged[i].groupname \in {<<>>, <<g>>}
                  /\ pa_merged[i].cost.v = PaOnce(g)
        /\ \A i \in CostRows(claims_merged) :
              \E g \in ClaimGroupsInWindow :
                  /\ claims_merged[i].groupname \in {<<>>, <<g>>}
                  /\ claims_merged[i].cost.v = ClaimsOnce(g)
        /\ \A i \in DebitRows(pa_merged) :
              \E g \in DebitGroupsInWindow :
                  /\ pa_merged[i].groupname = <<g>>
                  /\ pa_merged[i].debit.v = DebitOnce(g)

\* where no group has two contract rows holding the same instant, every row is
\* taken once
OneWindowPerInstant ==
    \A i, j \in 1..Len(GROUP_CONTRACT) :
        (/\ i # j
         /\ GROUP_CONTRACT[i].groupname = GROUP_CONTRACT[j].groupname) =>
            \/ GROUP_CONTRACT[i].enddate < GROUP_CONTRACT[j].startdate
            \/ GROUP_CONTRACT[j].enddate < GROUP_CONTRACT[i].startdate

OnceWhenWindowsDisjoint ==
    (Calculated /\ OneWindowPerInstant) =>
        /\ \A i \in CostRows(pa_merged) :
              \E g \in PaGroupsInWindow : pa_merged[i].cost.v = PaOnce(g)
        /\ \A i \in DebitRows(pa_merged) :
              \E g \in DebitGroupsInWindow : pa_merged[i].debit.v = DebitOnce(g)


(***************************************************************************)
(* C28. check_and_send_alerts sends an alert only for a group whose MLR is *)
(* a finite percentage taken of a debit total above zero: every alert sent *)
(* in a run belongs to a row of its result table with a debit total above  *)
(* zero and a finite ratio at or above the threshold; for a row without a  *)
(* debit total (ratio NaN or infinite) nothing is sent or recorded.        *)
(***************************************************************************)
AlertChecked == pc \in {"alerted", "rendered", "done"} /\ alert_checked

C28_Original ==
    AlertChecked =>
        \A n \in 1..Len(alerts_sent) :
            \E r \in Rows(TableOf(alerts_sent[n][2])) :
                /\ r.groupname = alerts_sent[n][1]
                /\ IsNum(r.debit) /\ r.debit.v > 0
                /\ IsNum(r.mlr) /\ r.mlr.v >= alerts_sent[n][3]

\* an alert goes out for a ratio at or above the threshold, the infinite ratio
\* of a cost without a debit total among them, and never for a NaN
AlertsOnlyAtOrAboveThreshold ==
    AlertChecked =>
        \A n \in 1..Len(alerts_sent) :
            \E r \in Rows(TableOf(alerts_sent[n][2])) :
                /\ r.groupname = alerts_sent[n][1]
                /\ \/ IsNum(r.mlr) /\ r.mlr.v >= alerts_sent[n][3]
                   \/ r.mlr = PosInf /\ IsNull(r.debit)


(***************************************************************************)
(* C29. A failed data load is never served from the cache: a script run    *)
(* that gets its data without the databases being queried gets the tables  *)
(* of a successful load, so that after a failed run the next run queries   *)
(* the databases again.                                                    *)
(***************************************************************************)
C29_Original == served_from_cache => run_value = "tables"

\* what a run is served from the cache is what the last query of the databases
\* returned
ServedWhatWasStored ==
    served_from_cache =>
        /\ data_cache = <<run_value>>
        /\ db_queries > 0


(***************************************************************************)
(* C30. For a given group, MLR type and threshold, and unchanged data, at  *)
(* most one alert e-mail is sent in total, however many sessions run the   *)
(* alert check and in whatever order: what one session has recorded keeps  *)
(* every other session from sending.                                       *)
(***************************************************************************)
TimesSent(a) == Cardinality({n \in 1..Len(mailbox) : mailbox[n] = a})

C30_Original == \A n \in 1..Len(mailbox) : TimesSent(mailbox[n]) <= 1

\* an alert is sent at most once by each session, a reloaded page being a
\* session of its own
OncePerSession ==
    \A n \in 1..Len(mailbox) : TimesSent(mailbox[n]) <= Cardinality(Sessions) + reloads

=============================================================================
